---- MODULE Spec2Model ----
(***************************************************************************)
(* A model of VAST's meta index (libvast/src/system/meta_index.cpp): the   *)
(* map from partition ids to partition synopses, its merge / erase /       *)
(* lookup / memusage operations and the actor that serves them.            *)
(*                                                                         *)
(* Strings whose characters matter (layout names, field names, string      *)
(* data: ends_with and substring tests look inside them) are sequences of  *)
(* one-character strings.  Type names and attributes are only compared     *)
(* for equality and stay TLA+ strings.                                     *)
(***************************************************************************)
EXTENDS Integers, Sequences, FiniteSets, TLC

\* ------------------------------------------------------------------ bounds

\* Partition ids are 1..MaxPartition (uuids: opaque, totally ordered).
MaxPartition == 3
\* Number of bits of a Bloom filter synopsis (one hash function).
BloomBits == 2
\* Largest number of requests waiting in the actor's mailbox.
MaxMailbox == 2
\* Largest number of entries of a bulk merge.
MaxBulk == 2

PartitionIds == 1..MaxPartition

\* ------------------------------------------------------- sequence helpers

RECURSIVE SeqSum(_)
SeqSum(s) == IF s = <<>> THEN 0 ELSE Head(s) + SeqSum(Tail(s))

Range(s) == {s[i] : i \in 1..Len(s)}

IsSorted(s) == \A i \in 1..(Len(s) - 1) : s[i] <= s[i + 1]

IsStrictlyAscending(s) == \A i \in 1..(Len(s) - 1) : s[i] < s[i + 1]

\* std::sort on a vector of ids: insertion of each element at its place.
RECURSIVE InsertSorted(_, _)
InsertSorted(x, s) ==
    IF s = <<>> THEN <<x>>
    ELSE IF x <= Head(s) THEN <<x>> \o s
    ELSE <<Head(s)>> \o InsertSorted(x, Tail(s))

\* The vector as it was assembled: no std::sort.
Unsorted(s) == s

RECURSIVE Sort(_)
Sort(s) == IF s = <<>> THEN <<>> ELSE InsertSorted(Head(s), Sort(Tail(s)))

\* The sequences of ss, one after the other.
RECURSIVE Flatten(_)
Flatten(ss) == IF ss = <<>> THEN <<>> ELSE Head(ss) \o Flatten(Tail(ss))

\* detail::ends_with(str, suffix)
ends_with(str, suffix) ==
    /\ Len(suffix) <= Len(str)
    /\ SubSeq(str, Len(str) - Len(suffix) + 1, Len(str)) = suffix

\* std::set_intersection of two sorted ranges, written back into the first
\* (detail::inplace_intersect).  The merge walk assumes both are sorted.
RECURSIVE inplace_intersect(_, _)
inplace_intersect(xs, ys) ==
    IF xs = <<>> \/ ys = <<>> THEN <<>>
    ELSE IF Head(xs) < Head(ys) THEN inplace_intersect(Tail(xs), ys)
    ELSE IF Head(ys) < Head(xs) THEN inplace_intersect(xs, Tail(ys))
    ELSE <<Head(xs)>> \o inplace_intersect(Tail(xs), Tail(ys))

\* std::set_union of two sorted ranges, written back into the first
\* (detail::inplace_unify).
RECURSIVE inplace_unify(_, _)
inplace_unify(xs, ys) ==
    IF xs = <<>> THEN ys
    ELSE IF ys = <<>> THEN xs
    ELSE IF Head(xs) < Head(ys) THEN <<Head(xs)>> \o inplace_unify(Tail(xs), ys)
    ELSE IF Head(ys) < Head(xs) THEN <<Head(ys)>> \o inplace_unify(xs, Tail(ys))
    ELSE <<Head(xs)>> \o inplace_unify(Tail(xs), Tail(ys))

\* --------------------------------------------------------------- the types

\* A type: its variant, its display name ("" when it has none) and its
\* attributes.
Type(kind, name, attrs) == [kind |-> kind, name |-> name, attrs |-> attrs]

AddressType == Type("address", "", {})
CountType == Type("count", "", {})
StringType == Type("string", "", {})
TimeType == Type("time", "", {})
\* type port = count
PortType == Type("count", "port", {})
\* type timestamp = time
TimestampType == Type("time", "timestamp", {})
\* time #timestamp
AttributedTimeType == Type("time", "", {"timestamp"})
\* A type extractor that names a type: none_type with a name.
NamedQueryType(name) == Type("none", name, {})

\* vast::type{t}.attributes({}): the type stripped of its attributes.
cleaned_type(t) == [t EXCEPT !.attrs = {}]

has_attribute(t, key) == key \in t.attrs

\* ---------------------------------------------------------------- the data

Str(s) == [tag |-> "string", s |-> s]
Cnt(n) == [tag |-> "count", n |-> n]
Addr(n) == [tag |-> "address", n |-> n]
Tm(n) == [tag |-> "time", n |-> n]
Bool(b) == [tag |-> "bool", n |-> IF b THEN 1 ELSE 0]
\* A list of data: xs is the set of its elements.
List(xs) == [tag |-> "list", xs |-> xs]

NumericTags == {"count", "address", "time"}

\* The order of the characters that occur in strings.
CharRank(c) ==
    CASE c = "." -> 0
      [] c = "c" -> 1
      [] c = "d" -> 2
      [] c = "h" -> 3
      [] c = "p" -> 4
      [] c = "q" -> 5
      [] c = "t" -> 6
      [] OTHER -> 7

RECURSIVE StrLess(_, _)
StrLess(a, b) ==
    IF b = <<>> THEN FALSE
    ELSE IF a = <<>> THEN TRUE
    ELSE IF CharRank(Head(a)) < CharRank(Head(b)) THEN TRUE
    ELSE IF CharRank(Head(b)) < CharRank(Head(a)) THEN FALSE
    ELSE StrLess(Tail(a), Tail(b))

IsSubstring(a, b) ==
    \E i \in 1..(Len(b) - Len(a) + 1) : SubSeq(b, i, i + Len(a) - 1) = a

SameTag(x, y) == x.tag = y.tag

DataEq(x, y) ==
    /\ SameTag(x, y)
    /\ CASE x.tag = "string" -> x.s = y.s
         [] x.tag = "list" -> x.xs = y.xs
         [] OTHER -> x.n = y.n

DataLess(x, y) ==
    /\ SameTag(x, y)
    /\ x.tag # "list"
    /\ IF x.tag = "string" THEN StrLess(x.s, y.s) ELSE x.n < y.n

\* in: substring for strings, membership for a list on the right.
DataIn(x, y) ==
    \/ x.tag = "string" /\ y.tag = "string" /\ IsSubstring(x.s, y.s)
    \/ y.tag = "list" /\ \E e \in y.xs : DataEq(x, e)

RelOps == {"==", "!=", "<", "<=", ">", ">=", "in", "!in"}

\* is_negated(op): true for the negated operators.
is_negated(op) == op \in {"!=", "!in", "!match"}

\* evaluate(lhs, op, rhs) on data.
evaluate(lhs, op, rhs) ==
    CASE op = "==" -> DataEq(lhs, rhs)
      [] op = "!=" -> ~DataEq(lhs, rhs)
      [] op = "<" -> DataLess(lhs, rhs)
      [] op = "<=" -> DataLess(lhs, rhs) \/ DataEq(lhs, rhs)
      [] op = ">" -> DataLess(rhs, lhs)
      [] op = ">=" -> DataLess(rhs, lhs) \/ DataEq(lhs, rhs)
      [] op = "in" -> DataIn(lhs, rhs)
      [] op = "!in" -> ~DataIn(lhs, rhs)
      [] OTHER -> FALSE

\* ------------------------------------------------------------- the synopses

\* The absent synopsis (a null synopsis_ptr).
Null == [kind |-> "null"]

\* The hash of a view that selects the Bloom filter's bit.
BloomHash(d) == (IF d.tag = "string" THEN Len(d.s) ELSE d.n) % BloomBits

\* A synopsis after add() of every value of `values` (all of tag `tag`).
BloomOf(tag, values) ==
    [kind |-> "bloom", tag |-> tag, bits |-> {BloomHash(v) : v \in values}]

MinMaxOf(tag, values) ==
    [kind |-> "minmax", tag |-> tag,
     lo |-> IF values = {} THEN 1000
            ELSE CHOOSE n \in {v.n : v \in values} : \A v \in values : n <= v.n,
     hi |-> IF values = {} THEN -1
            ELSE CHOOSE n \in {v.n : v \in values} : \A v \in values : v.n <= n]

BloomLookup(syn, op, probe) ==
    CASE op = "==" ->
           IF BloomHash(probe) \in syn.bits THEN "Some(true)" ELSE "Some(false)"
      [] OTHER -> "None"

\* The Bloom filter asked for `in` with a list: the OR of the lookups of
\* the elements; an element of another type than the values is not
\* answered.
BloomLookupList(syn, probe) ==
    LET each == {IF e.tag = syn.tag THEN BloomLookup(syn, "==", e) ELSE "None" :
                    e \in probe.xs}
    IN IF "Some(true)" \in each THEN "Some(true)"
       ELSE IF "None" \in each THEN "None"
       ELSE "Some(false)"

\* The Boolean tally: the numbers of true and of false values added.
BoolTally(trues, falses) ==
    [kind |-> "bool", tag |-> "bool", trues |-> trues, falses |-> falses]

BoolLookup(syn, op, probe) ==
    CASE op = "==" /\ probe.n = 1 ->
           IF syn.trues = 0 THEN "Some(false)" ELSE "Some(true)"
      [] op = "==" /\ probe.n = 0 ->
           IF syn.falses = 0 THEN "Some(false)" ELSE "Some(true)"
      [] OTHER -> "None"

\* The min-max rules with the bounds of <= and >= taken from < and >.
MinMaxLookupOffByOne(syn, op, probe) ==
    LET x == probe.n
    IN CASE op = "==" -> IF x < syn.lo \/ x > syn.hi THEN "Some(false)" ELSE "None"
         [] op \in {"<", "<="} -> IF syn.lo >= x THEN "Some(false)"
                                  ELSE IF syn.hi < x THEN "Some(true)" ELSE "None"
         [] op \in {">", ">="} -> IF syn.hi <= x THEN "Some(false)"
                                  ELSE IF syn.lo > x THEN "Some(true)" ELSE "None"
         [] OTHER -> "None"

MinMaxLookup(syn, op, probe) ==
    LET x == probe.n
    IN CASE op = "==" -> IF x < syn.lo \/ x > syn.hi THEN "Some(false)" ELSE "None"
         [] op = "<" -> IF syn.lo >= x THEN "Some(false)"
                        ELSE IF syn.hi < x THEN "Some(true)" ELSE "None"
         [] op = "<=" -> IF syn.lo > x THEN "Some(false)"
                         ELSE IF syn.hi <= x THEN "Some(true)" ELSE "None"
         [] op = ">" -> IF syn.hi <= x THEN "Some(false)"
                        ELSE IF syn.lo > x THEN "Some(true)" ELSE "None"
         [] op = ">=" -> IF syn.hi < x THEN "Some(false)"
                         ELSE IF syn.lo >= x THEN "Some(true)" ELSE "None"
         [] OTHER -> "None"

\* synopsis::lookup(op, view) -> optional<bool>.  A probe of another type
\* than the summarised values is not answered.
SynopsisLookup(syn, op, probe) ==
    IF probe.tag = "list"
    THEN IF syn.kind = "bloom" /\ op = "in" THEN BloomLookupList(syn, probe)
         ELSE "None"
    ELSE IF syn.tag # probe.tag THEN "None"
    ELSE IF syn.kind = "bloom" THEN BloomLookup(syn, op, probe)
    ELSE IF syn.kind = "bool" THEN BoolLookup(syn, op, probe)
    ELSE MinMaxLookup(syn, op, probe)

\* synopsis::add(view), for a view of the synopsis' type.
synopsis_add(syn, v) ==
    CASE syn.kind = "bloom" -> [syn EXCEPT !.bits = @ \cup {BloomHash(v)}]
      [] syn.kind = "minmax" ->
           [syn EXCEPT !.lo = IF v.n < @ THEN v.n ELSE @,
                       !.hi = IF v.n > @ THEN v.n ELSE @]
      [] syn.kind = "bool" ->
           [syn EXCEPT !.trues = @ + v.n, !.falses = @ + (1 - v.n)]

\* synopsis::memusage()
SynopsisMemusage(syn) ==
    CASE syn.kind = "bloom" -> 4 + Cardinality(syn.bits)
      [] syn.kind = "minmax" -> 2
      [] syn.kind = "bool" -> 2
      [] OTHER -> 0

\* --------------------------------------------------- the partition synopsis

\* qualified_record_field: the key of field_synopses_.
QualifiedRecordField(layout_name, field_name, type) ==
    [layout_name |-> layout_name, field_name |-> field_name, type |-> type]

\* qualified_record_field::fqn(): the layout name, a dot, the field name.
fqn(field) == field.layout_name \o <<".">> \o field.field_name

\* partition_synopsis::memusage(): the sum over its synopses.
PartitionMemusage(ps) ==
    SeqSum([i \in 1..Len(ps.field_synopses_) |->
              SynopsisMemusage(ps.field_synopses_[i].syn)])
    + SeqSum([i \in 1..Len(ps.type_synopses_) |->
                SynopsisMemusage(ps.type_synopses_[i].syn)])

\* type_synopses_.find(type): the index of the entry, 0 when there is none.
FindTypeSynopsis(ps, type) ==
    IF \E i \in 1..Len(ps.type_synopses_) : ps.type_synopses_[i].type = type
    THEN CHOOSE i \in 1..Len(ps.type_synopses_) : ps.type_synopses_[i].type = type
    ELSE 0

\* ---------------------------------------------------------- the expressions

Predicate(lhs, op, rhs) == [node |-> "predicate", lhs |-> lhs, op |-> op, rhs |-> rhs]
Conjunction(xs) == [node |-> "conjunction", xs |-> xs]
Disjunction(xs) == [node |-> "disjunction", xs |-> xs]
Negation(x) == [node |-> "negation", x |-> x]
Nil == [node |-> "none"]

\* The extractors: the left-hand side of a predicate.
MetaExtractor(kind) == [ext |-> "meta", kind |-> kind]
FieldExtractor(field) == [ext |-> "field", field |-> field]
TypeExtractor(type) == [ext |-> "type", type |-> type]
DataExtractor == [ext |-> "data"]

\* ------------------------------------------------------------------- state

VARIABLES
    synopses,        \* meta_index_state::synopses: partition id -> partition synopsis
    bucket_order,    \* the order in which the hash map hands out its entries
    contents,        \* per partition, the events it holds (known to the harness)
    reply,           \* the call that just returned and what it returned
    memoized,        \* what the last lookup left in its local memoized_partitions
    mailbox,         \* the requests the actor has not handled yet
    arrived,         \* the map after every merge sent so far, in arrival order
    summary,         \* a synopsis, the values added to it and its last answer
    json,            \* a JSON object, the field looked up in it and what was found
    conversion,      \* a JSON value, the type it is converted to and the outcome
    schemas,         \* the schemata at hand and what the last call on them returned
    registry,        \* type_registry_state::data and the last layout inserted
    plugins,         \* the plugins loaded, their type-ID blocks and their instances
    options,         \* the option declarations and the parse under way
    ingestor         \* the ingestor: segments_, its mailbox and the messages out

\* The variables of the meta index, and those of the other components.
index == <<synopses, bucket_order, contents, reply, memoized, mailbox, arrived>>
others == <<summary, json, conversion, schemas>>
more == <<registry, plugins, options, ingestor>>
vars == <<index, others, more>>

\* A component that is not in use.
Idle == [state |-> "idle"]

\* The components beside the meta index and the JSON reader, not in use.
MoreIdle == registry = Idle /\ plugins = Idle /\ options = Idle /\ ingestor = Idle

\* The entries of a map in the order a range-for visits them.
Iterate(S) == SelectSeq(bucket_order, LAMBDA id : id \in DOMAIN S)

\* --------------------------------------------------- meta_index_state::lookup

\* A memo that outlives the call (a static or a member): it starts as the
\* previous lookup left it.
LeakedMemo == memoized

\* result_type memoized_partitions: a local of lookup, empty on every call.
FreshMemo == <<>>

\* all_partitions without its std::sort: the keys in iteration order.
all_partitions_unsorted(S, memoized_partitions) ==
    IF memoized_partitions # <<>> \/ DOMAIN S = {}
    THEN memoized_partitions
    ELSE Iterate(S)

\* The lambda all_partitions with its memo, memoized_partitions.
all_partitions(S, memoized_partitions) ==
    IF memoized_partitions # <<>> \/ DOMAIN S = {}
    THEN memoized_partitions
    ELSE Sort(Iterate(S))

\* Equality of types as the type extractor uses it.
TypeEq(a, b) == a.kind = b.kind /\ a.attrs = b.attrs

\* The match functions handed to search.
Match(matcher, field) ==
    CASE matcher.m = "suffix" -> ends_with(fqn(field), matcher.s)
      [] matcher.m = "name" -> field.type.name = matcher.type.name
      [] matcher.m = "structural" ->
           TypeEq(field.type, matcher.type) /\ field.type.name = ""
      [] matcher.m = "attribute" -> has_attribute(field.type, matcher.key)

\* A consultation that lets the partition in only on a definite yes: an
\* empty optional rejects the field.
AcceptsOnlyTrue(opt) == opt = "Some(true)"

\* Whether a consulted synopsis lets the partition into the result:
\* !opt || *opt.
Accepts(opt) == opt # "Some(false)"

\* A scan that asks the synopsis of the type after the field's own synopsis
\* ruled the field out.
RECURSIVE ScanFieldsFallsThrough(_, _, _, _)
ScanFieldsFallsThrough(part_syn, x, matcher, i) ==
    IF i > Len(part_syn.field_synopses_) THEN FALSE
    ELSE LET field == part_syn.field_synopses_[i].field
             syn == part_syn.field_synopses_[i].syn
             it == FindTypeSynopsis(part_syn, cleaned_type(field.type))
         IN IF ~Match(matcher, field)
            THEN ScanFieldsFallsThrough(part_syn, x, matcher, i + 1)
            ELSE IF syn # Null /\ Accepts(SynopsisLookup(syn, x.op, x.rhs))
            THEN TRUE
            ELSE IF it # 0 /\ part_syn.type_synopses_[it].syn # Null
            THEN Accepts(SynopsisLookup(part_syn.type_synopses_[it].syn, x.op, x.rhs))
                 \/ ScanFieldsFallsThrough(part_syn, x, matcher, i + 1)
            ELSE syn = Null \/ ScanFieldsFallsThrough(part_syn, x, matcher, i + 1)

\* A scan that lets the first matching field decide for the partition.
RECURSIVE ScanFieldsStopsAtFirst(_, _, _, _)
ScanFieldsStopsAtFirst(part_syn, x, matcher, i) ==
    IF i > Len(part_syn.field_synopses_) THEN FALSE
    ELSE LET field == part_syn.field_synopses_[i].field
             syn == part_syn.field_synopses_[i].syn
             it == FindTypeSynopsis(part_syn, cleaned_type(field.type))
         IN IF ~Match(matcher, field)
            THEN ScanFieldsStopsAtFirst(part_syn, x, matcher, i + 1)
            ELSE IF syn # Null
            THEN Accepts(SynopsisLookup(syn, x.op, x.rhs))
            ELSE IF it # 0 /\ part_syn.type_synopses_[it].syn # Null
            THEN Accepts(SynopsisLookup(part_syn.type_synopses_[it].syn, x.op, x.rhs))
            ELSE TRUE

\* The inner loop of search over the fields of one partition, from field i
\* on: TRUE when the partition id is pushed (each push is followed by break).
RECURSIVE ScanFields(_, _, _, _)
ScanFields(part_syn, x, matcher, i) ==
    IF i > Len(part_syn.field_synopses_) THEN FALSE
    ELSE LET field == part_syn.field_synopses_[i].field
             syn == part_syn.field_synopses_[i].syn
             it == FindTypeSynopsis(part_syn, cleaned_type(field.type))
         IN IF ~Match(matcher, field)
            THEN ScanFields(part_syn, x, matcher, i + 1)
            ELSE IF syn # Null
            THEN Accepts(SynopsisLookup(syn, x.op, x.rhs))
                 \/ ScanFields(part_syn, x, matcher, i + 1)
            ELSE IF it # 0 /\ part_syn.type_synopses_[it].syn # Null
            THEN Accepts(SynopsisLookup(part_syn.type_synopses_[it].syn, x.op, x.rhs))
                 \/ ScanFields(part_syn, x, matcher, i + 1)
            ELSE TRUE

\* search without its std::sort: the ids in the order the map hands them out.
search_unsorted(S, x, matcher) ==
    SelectSeq(Iterate(S), LAMBDA part_id : ScanFields(S[part_id], x, matcher, 1))

\* The lambda search: the partitions with a matching field that no synopsis
\* rules out, sorted.
search(S, x, matcher) ==
    Sort(SelectSeq(Iterate(S), LAMBDA part_id : ScanFields(S[part_id], x, matcher, 1)))

\* #type: a partition with a field whose layout name satisfies the predicate.
HasLayout(part_syn, x) ==
    \E i \in 1..Len(part_syn.field_synopses_) :
        evaluate(Str(part_syn.field_synopses_[i].field.layout_name), x.op, x.rhs)

\* The #type loops without the break: one push per field of a matching
\* layout.
MetaTypeLookupNoBreak(S, x) ==
    Sort(Flatten([k \in 1..Len(Iterate(S)) |->
        LET part_id == Iterate(S)[k]
            keys == S[part_id].field_synopses_
            hits == SelectSeq([i \in 1..Len(keys) |-> i],
                              LAMBDA i : evaluate(Str(keys[i].field.layout_name),
                                                  x.op, x.rhs))
        IN [i \in 1..Len(hits) |-> part_id]]))

MetaTypeLookup(S, x) ==
    Sort(SelectSeq(Iterate(S), LAMBDA part_id : HasLayout(S[part_id], x)))

\* A comparison of the whole qualified name in place of ends_with.
matching_whole_name(part_syn, s) ==
    \E i \in 1..Len(part_syn.field_synopses_) :
        fqn(part_syn.field_synopses_[i].field) = s

\* #field: the lambda matching.
matching(part_syn, s) ==
    \E i \in 1..Len(part_syn.field_synopses_) :
        ends_with(fqn(part_syn.field_synopses_[i].field), s)

\* A #field case that takes a right-hand side that is no string for a name
\* that no field has.
MetaFieldLookupNoName(S, x) ==
    Sort(SelectSeq(Iterate(S),
                   LAMBDA part_id :
                       (~is_negated(x.op)) =
                           (x.rhs.tag = "string" /\ matching(S[part_id], x.rhs.s))))

MetaFieldLookup(S, x) ==
    IF x.rhs.tag # "string" THEN <<>>
    ELSE Sort(SelectSeq(Iterate(S),
                        LAMBDA part_id :
                            (~is_negated(x.op)) = matching(S[part_id], x.rhs.s)))

\* The match function the type extractor case hands to search: by name for
\* a none_type (which carries the name of a type still to be resolved), by
\* equality with an unnamed field type for every other type.
TypePredicate(lhs) ==
    IF lhs.type.kind = "none"
    THEN [m |-> "name", type |-> lhs.type]
    ELSE [m |-> "structural", type |-> lhs.type]

\* The type extractor case.
TypeExtractorLookup(S, x) ==
    LET lhs == x.lhs
        result == search(S, x, TypePredicate(lhs))
    IN IF lhs.type.name = "timestamp"
       THEN inplace_unify(result, search(S, x, [m |-> "attribute", key |-> "timestamp"]))
       ELSE result

\* The predicate case: the visitor extract_expr arrived to (x.lhs, x.rhs).
PredicateLookup(S, x) ==
    CASE x.lhs.ext = "meta" /\ x.lhs.kind = "type" -> MetaTypeLookup(S, x)
      [] x.lhs.ext = "meta" /\ x.lhs.kind = "field" -> MetaFieldLookup(S, x)
      [] x.lhs.ext = "field" -> search(S, x, [m |-> "suffix", s |-> x.lhs.field])
      [] x.lhs.ext = "type" -> TypeExtractorLookup(S, x)
      [] OTHER -> all_partitions(S, FreshMemo)

RECURSIVE lookup(_, _)

\* A negation answered with the complement of its child's result.
NegationComplement(S, x) ==
    SelectSeq(all_partitions(S, FreshMemo), LAMBDA id : id \notin Range(lookup(S, x)))

\* The negation case: the child is not looked at.
NegationLookup(S, x) == all_partitions(S, FreshMemo)

RECURSIVE ConjunctionLoop(_, _, _, _)
RECURSIVE DisjunctionLoop(_, _, _, _)

\* A loop that leaves at an empty child with what it has so far.
RECURSIVE ConjunctionLoopKeeps(_, _, _, _)
ConjunctionLoopKeeps(S, x, i, result) ==
    IF i > Len(x) THEN result
    ELSE LET xs == lookup(S, x[i])
         IN IF xs = <<>> THEN result
            ELSE ConjunctionLoopKeeps(S, x, i + 1, inplace_intersect(result, xs))

\* for (++i; i != x.end(); ++i) of the conjunction case.
ConjunctionLoop(S, x, i, result) ==
    IF i > Len(x) THEN result
    ELSE LET xs == lookup(S, x[i])
         IN IF xs = <<>> THEN xs
            ELSE ConjunctionLoop(S, x, i + 1, inplace_intersect(result, xs))

\* A loop that leaves at the first child with any result at all.
RECURSIVE DisjunctionLoopFirstHit(_, _, _, _)
DisjunctionLoopFirstHit(S, x, i, result) ==
    IF i > Len(x) THEN result
    ELSE LET xs == lookup(S, x[i])
         IN IF xs # <<>> THEN xs
            ELSE DisjunctionLoopFirstHit(S, x, i + 1, inplace_unify(result, xs))

\* for (auto& op : x) of the disjunction case.
DisjunctionLoop(S, x, i, result) ==
    IF i > Len(x) THEN result
    ELSE LET xs == lookup(S, x[i])
         IN IF Len(xs) = Cardinality(DOMAIN S) THEN xs
            ELSE DisjunctionLoop(S, x, i + 1, inplace_unify(result, xs))

\* meta_index_state::lookup(expr) on the map S.
lookup(S, expr) ==
    CASE expr.node = "conjunction" ->
           LET result == lookup(S, expr.xs[1])
           IN IF result # <<>> THEN ConjunctionLoop(S, expr.xs, 2, result)
              ELSE result
      [] expr.node = "disjunction" -> DisjunctionLoop(S, expr.xs, 1, <<>>)
      [] expr.node = "negation" -> NegationLookup(S, expr.x)
      [] expr.node = "predicate" -> PredicateLookup(S, expr)
      [] OTHER -> all_partitions(S, FreshMemo)

\* Whether lookup(expr) makes a call of lookup on Nil: the call at which
\* VAST_ASSERT(!holds_alternative<none_t>(expr)) fails.  A child that a
\* short-circuit skips, or the child of a negation, is never looked up.
RECURSIVE Asserts(_, _)
RECURSIVE AssertsInConjunction(_, _, _)
RECURSIVE AssertsInDisjunction(_, _, _)

AssertsInConjunction(S, x, i) ==
    /\ i <= Len(x)
    /\ \/ Asserts(S, x[i])
       \/ lookup(S, x[i]) # <<>> /\ AssertsInConjunction(S, x, i + 1)

AssertsInDisjunction(S, x, i) ==
    /\ i <= Len(x)
    /\ \/ Asserts(S, x[i])
       \/ /\ Len(lookup(S, x[i])) # Cardinality(DOMAIN S)
          /\ AssertsInDisjunction(S, x, i + 1)

Asserts(S, expr) ==
    CASE expr.node = "none" -> TRUE
      [] expr.node = "conjunction" -> AssertsInConjunction(S, expr.xs, 1)
      [] expr.node = "disjunction" -> AssertsInDisjunction(S, expr.xs, 1)
      [] OTHER -> FALSE

\* Whether Nil occurs in expr, at the root or below.
RECURSIVE ContainsNil(_)
ContainsNil(expr) ==
    CASE expr.node = "none" -> TRUE
      [] expr.node \in {"conjunction", "disjunction"} ->
           \E i \in 1..Len(expr.xs) : ContainsNil(expr.xs[i])
      [] expr.node = "negation" -> ContainsNil(expr.x)
      [] OTHER -> FALSE

\* The builds a call can tell apart: VAST_ASSERT is compiled in (TRUE) or
\* out (FALSE).  Without a Nil in the expression the assertion of lookup
\* holds, and one build stands for both.
Assertions(expr) == IF ContainsNil(expr) THEN BOOLEAN ELSE {FALSE}

\* Whether the case of the visitor that handles expr calls all_partitions.
CallsAllPartitions(expr) ==
    \/ expr.node \in {"negation", "none"}
    \/ /\ expr.node = "predicate"
       /\ expr.lhs.ext \notin {"field", "type"}
       /\ ~(expr.lhs.ext = "meta" /\ expr.lhs.kind \in {"type", "field"})

\* What lookup(expr) leaves in its memoized_partitions when it returns.
MemoAfter(S, expr) ==
    IF CallsAllPartitions(expr) THEN all_partitions(S, FreshMemo) ELSE FreshMemo

\* ------------------------------------------- partitions and what they hold

\* The names used by the layouts.
conn == <<"c">>
dns == <<"d">>
tl == <<"t">>
orig_h == <<"h">>
orig_p == <<"p">>
query == <<"q">>
ts == <<"t", "h">>

\* A layout: its name and its fields, each with the kind of synopsis the
\* partition keeps for it ("bloom", "minmax", or "none": no synopsis of its
\* own).
ConnLayout ==
    [name |-> conn,
     fields |-> <<[name |-> orig_h, type |-> AddressType, syn |-> "bloom"],
                  [name |-> orig_p, type |-> CountType, syn |-> "minmax"]>>]
DnsLayout ==
    [name |-> dns,
     fields |-> <<[name |-> query, type |-> StringType, syn |-> "bloom"]>>]
TimeLayout ==
    [name |-> tl,
     fields |-> <<[name |-> ts, type |-> AttributedTimeType, syn |-> "none"],
                  [name |-> orig_p, type |-> PortType, syn |-> "none"],
                  [name |-> query, type |-> TimestampType, syn |-> "minmax"]>>]

\* An event: its layout and one value per field of the layout.
Event(layout, vals) == [layout |-> layout, vals |-> vals]

\* The values of the events of one layout in field i.
FieldValues(events, layout, i) ==
    {ev.vals[i] : ev \in {e \in events : e.layout = layout}}

\* The values of every field of the partition whose type, stripped of its
\* attributes, is `type`.
TypeValues(layouts, events, type) ==
    UNION {UNION {FieldValues(events, layouts[k], i) :
                    i \in {j \in 1..Len(layouts[k].fields) :
                             cleaned_type(layouts[k].fields[j].type) = type}} :
             k \in 1..Len(layouts)}

SynopsisOf(kind, tag, values) ==
    CASE kind = "bloom" -> BloomOf(tag, values)
      [] kind = "minmax" -> MinMaxOf(tag, values)
      [] OTHER -> Null

\* The partition synopsis of a sealed partition: one entry per field of
\* each layout (a null synopsis for a field without one of its own) and the
\* per-type synopses of `typed`, a sequence of [type, syn] naming the kind
\* kept for a type ("none": a null entry).
PartitionSynopsis(layouts, events, typed) ==
    [field_synopses_ |->
        Flatten([k \in 1..Len(layouts) |->
            [i \in 1..Len(layouts[k].fields) |->
                LET f == layouts[k].fields[i]
                IN [field |-> QualifiedRecordField(layouts[k].name, f.name, f.type),
                    syn |-> SynopsisOf(f.syn, f.type.kind,
                                       FieldValues(events, layouts[k], i))]]]),
     type_synopses_ |->
        [j \in 1..Len(typed) |->
            [type |-> typed[j].type,
             syn |-> SynopsisOf(typed[j].syn, typed[j].type.kind,
                                TypeValues(layouts, events, typed[j].type))]]]

\* A sealed partition as the harness hands it over: the synopsis for the
\* meta index and the events for the harness itself.
Sealed(layouts, events, typed) ==
    [synopsis |-> PartitionSynopsis(layouts, events, typed), events |-> events]

\* conn partition: orig_h in {1, 3}, orig_p in [2, 3].
PartitionA ==
    Sealed(<<ConnLayout>>,
           {Event(ConnLayout, <<Addr(1), Cnt(2)>>),
            Event(ConnLayout, <<Addr(3), Cnt(3)>>)}, <<>>)
\* dns partition.
PartitionB ==
    Sealed(<<DnsLayout>>, {Event(DnsLayout, <<Str(<<"c", "d">>)>>)}, <<>>)
\* conn partition: orig_h in {2}, orig_p in [0, 0].
PartitionC ==
    Sealed(<<ConnLayout>>, {Event(ConnLayout, <<Addr(2), Cnt(0)>>)}, <<>>)
\* A partition with events of two layouts.
PartitionD ==
    Sealed(<<DnsLayout, ConnLayout>>,
           {Event(DnsLayout, <<Str(<<"q">>)>>),
            Event(ConnLayout, <<Addr(0), Cnt(1)>>)}, <<>>)
\* A partition whose fields rely on per-type synopses.
PartitionE ==
    Sealed(<<TimeLayout>>,
           {Event(TimeLayout, <<Tm(1), Cnt(2), Tm(3)>>)},
           <<[type |-> TimeType, syn |-> "minmax"],
             [type |-> PortType, syn |-> "none"]>>)

SealedPartitions == {PartitionA, PartitionB, PartitionC, PartitionD, PartitionE}

\* A partition whose only field carries the attribute timestamp on an
\* unnamed time type and has a synopsis of its own: values in [3, 3].
stamp == <<"s">>
StampLayout ==
    [name |-> stamp,
     fields |-> <<[name |-> ts, type |-> AttributedTimeType, syn |-> "minmax"]>>]
PartitionF == Sealed(<<StampLayout>>, {Event(StampLayout, <<Tm(3)>>)}, <<>>)

\* ------------------------------------------------------ the requests made

\* The predicates looked up.
Leaves ==
    <<Predicate(MetaExtractor("type"), "==", Str(conn)),
      Predicate(MetaExtractor("type"), "!=", Str(conn)),
      Predicate(MetaExtractor("field"), "==", Str(query)),
      Predicate(MetaExtractor("field"), "!=", Str(query)),
      Predicate(MetaExtractor("field"), "==", Cnt(1)),
      Predicate(MetaExtractor("other"), "==", Str(conn)),
      Predicate(FieldExtractor(orig_h), "==", Addr(1)),
      Predicate(FieldExtractor(orig_h), "==", Addr(2)),
      Predicate(FieldExtractor(orig_h), "!=", Addr(2)),
      Predicate(FieldExtractor(orig_p), "<", Cnt(1)),
      Predicate(FieldExtractor(orig_p), ">=", Cnt(3)),
      Predicate(FieldExtractor(query), "in", Str(<<"c", "d", "h">>)),
      Predicate(TypeExtractor(CountType), "==", Cnt(2)),
      Predicate(TypeExtractor(NamedQueryType("timestamp")), ">", Tm(2)),
      Predicate(TypeExtractor(NamedQueryType("timestamp")), "<", Tm(1)),
      Predicate(TypeExtractor(NamedQueryType("port")), "<=", Cnt(1)),
      Predicate(DataExtractor, "==", Cnt(1))>>

\* The leaves that conjunctions and disjunctions are built from.
Operands == {Leaves[i] : i \in {1, 4, 7, 10}}

Connectives ==
    {Conjunction(<<a>>) : a \in Operands}
    \cup {Disjunction(<<a>>) : a \in Operands}
    \cup {Conjunction(<<a, b>>) : <<a, b>> \in Operands \X Operands}
    \cup {Disjunction(<<a, b>>) : <<a, b>> \in Operands \X Operands}

Nested ==
    {Conjunction(<<Leaves[1], Disjunction(<<Leaves[7], Leaves[10]>>), Leaves[4]>>),
     Disjunction(<<Conjunction(<<Leaves[1], Leaves[10]>>), Leaves[3], Leaves[14]>>),
     Disjunction(<<Leaves[7], Negation(Leaves[7])>>),
     Conjunction(<<Negation(Leaves[1]), Leaves[3]>>),
     Negation(Conjunction(<<Leaves[1], Leaves[7]>>)),
     Conjunction(<<Disjunction(<<Leaves[2], Leaves[8]>>),
                   Disjunction(<<Leaves[10], Leaves[3]>>)>>)}

\* Every expression a lookup is asked for: no Nil in it.
Expressions ==
    Range(Leaves) \cup {Negation(l) : l \in Range(Leaves)} \cup Connectives \cup Nested

\* ----------------------------------------------------- meta_index_state

\* synopses.emplace(partition, ps): an entry already there is kept.
merge_emplace(S, partition, ps) ==
    [id \in DOMAIN S \cup {partition} |-> IF id \in DOMAIN S THEN S[id] ELSE ps]

\* A merge that adds the new synopses to those the partition already has.
merge_append(S, partition, ps) ==
    [id \in DOMAIN S \cup {partition} |->
        IF id # partition THEN S[id]
        ELSE IF id \notin DOMAIN S THEN ps
        ELSE [field_synopses_ |-> S[id].field_synopses_ \o ps.field_synopses_,
              type_synopses_ |-> S[id].type_synopses_ \o ps.type_synopses_]]

\* meta_index_state::merge: synopses[partition] = std::move(ps).
merge(S, partition, ps) ==
    [id \in DOMAIN S \cup {partition} |-> IF id = partition THEN ps ELSE S[id]]

\* An erase at lower_bound(partition) with no test that the key found is
\* partition: an absent id takes its successor out.
erase_lower_bound(S, partition) ==
    LET above == {id \in DOMAIN S : id >= partition}
        hit == CHOOSE id \in above : \A other \in above : id <= other
    IN IF above = {} THEN S ELSE [id \in DOMAIN S \ {hit} |-> S[id]]

\* meta_index_state::erase: synopses.erase(partition).
erase(S, partition) == [id \in DOMAIN S \ {partition} |-> S[id]]

\* result = ... in place of result += ...: the last entry alone.
memusage_last(S) ==
    IF Iterate(S) = <<>> THEN 0
    ELSE PartitionMemusage(S[Iterate(S)[Len(Iterate(S))]])

\* meta_index_state::memusage: the loop over synopses.
memusage(S) ==
    SeqSum([i \in 1..Len(Iterate(S)) |-> PartitionMemusage(S[Iterate(S)[i]])])

\* The handler of (atom::merge, map): merge for each entry, in the order of
\* the std::map, from entry i of its keys on.
RECURSIVE MergeEach(_, _, _, _)
MergeEach(S, ps, keys, i) ==
    IF i > Len(keys) THEN S
    ELSE MergeEach(merge(S, keys[i], ps[keys[i]]), ps, keys, i + 1)

\* The keys of a std::map in iteration order: ascending.
MapKeys(m) == SelectSeq([i \in 1..MaxPartition |-> i], LAMBDA id : id \in DOMAIN m)

\* A loop that leaves after its first entry.
merge_bulk_first(S, ps) ==
    IF MapKeys(ps) = <<>> THEN S ELSE merge(S, MapKeys(ps)[1], ps[MapKeys(ps)[1]])

merge_bulk(S, ps) == MergeEach(S, ps, MapKeys(ps), 1)

\* ------------------------------------------------------------ the harness

\* Whether one event satisfies an expression.  A predicate the meta index
\* cannot interpret counts as satisfied: the harness cannot tell, and
\* demands the partition.
FieldOf(ev, i) ==
    QualifiedRecordField(ev.layout.name, ev.layout.fields[i].name,
                         ev.layout.fields[i].type)

\* The matching rule of a type extractor: by name when the query type has
\* one ("timestamp" also matching the attribute), else by structure.
TypeMatches(t, type) ==
    IF t.name # ""
    THEN type.name = t.name \/ (t.name = "timestamp" /\ has_attribute(type, "timestamp"))
    ELSE TypeEq(type, t)

PredicateHolds(ev, x) ==
    CASE x.lhs.ext = "meta" /\ x.lhs.kind = "type" ->
           evaluate(Str(ev.layout.name), x.op, x.rhs)
      [] x.lhs.ext = "meta" /\ x.lhs.kind = "field" ->
           /\ x.rhs.tag = "string"
           /\ (~is_negated(x.op))
              = (\E i \in 1..Len(ev.vals) : ends_with(fqn(FieldOf(ev, i)), x.rhs.s))
      [] x.lhs.ext = "field" ->
           \E i \in 1..Len(ev.vals) :
               /\ ends_with(fqn(FieldOf(ev, i)), x.lhs.field)
               /\ evaluate(ev.vals[i], x.op, x.rhs)
      [] x.lhs.ext = "type" ->
           \E i \in 1..Len(ev.vals) :
               /\ TypeMatches(x.lhs.type, ev.layout.fields[i].type)
               /\ evaluate(ev.vals[i], x.op, x.rhs)
      [] OTHER -> TRUE

RECURSIVE Satisfies(_, _)
Satisfies(ev, expr) ==
    CASE expr.node = "conjunction" ->
           \A i \in 1..Len(expr.xs) : Satisfies(ev, expr.xs[i])
      [] expr.node = "disjunction" ->
           \E i \in 1..Len(expr.xs) : Satisfies(ev, expr.xs[i])
      [] expr.node = "negation" -> ~Satisfies(ev, expr.x)
      [] expr.node = "predicate" -> PredicateHolds(ev, expr)
      [] OTHER -> FALSE

\* The partitions whose actual data satisfies expr.
Holders(expr) ==
    {p \in DOMAIN contents : \E ev \in contents[p] : Satisfies(ev, expr)}

\* ------------------------------------------------------------- the calls

\* A call that returned: the operation, its partition id (0: none), a note
\* on the state it found, the expression looked up or the map merged, and
\* the result.
Reply(op, id, note, arg, ids, bytes) ==
    [op |-> op, id |-> id, note |-> note, expr |-> arg, ids |-> ids, bytes |-> bytes]

NoReply == Reply("none", 0, "", Nil, <<>>, 0)

\* The orders a hash map may hand its entries out in: by ascending and by
\* descending id.
BucketOrders ==
    {[i \in 1..MaxPartition |-> i], [i \in 1..MaxPartition |-> MaxPartition + 1 - i]}

\* The maps a bulk merge may carry: at most MaxBulk entries.
BulkPartitions == {PartitionA, PartitionD}

BulkMaps ==
    UNION {[ks -> BulkPartitions] :
             ks \in {k \in SUBSET PartitionIds : Cardinality(k) <= MaxBulk}}

Init ==
    /\ synopses = <<>>
    /\ bucket_order \in BucketOrders
    /\ contents = <<>>
    /\ reply = NoReply
    /\ memoized = <<>>
    /\ mailbox = <<>>
    /\ arrived = <<>>
    /\ summary = Idle
    /\ json = Idle
    /\ conversion = Idle
    /\ schemas = Idle
    /\ MoreIdle

\* state.merge(partition, ps)
Merge(partition, sp) ==
    /\ reply = NoReply
    /\ synopses' = merge(synopses, partition, sp.synopsis)
    /\ contents' = merge(contents, partition, sp.events)
    /\ reply' = Reply("merge", partition,
                      IF partition \notin DOMAIN synopses THEN "new"
                      ELSE IF synopses[partition] = sp.synopsis THEN "same"
                      ELSE "replaced",
                      Nil, <<>>, 0)
    /\ UNCHANGED <<bucket_order, memoized, mailbox, arrived, others, more>>

\* state.erase(partition)
Erase(partition) ==
    /\ reply = NoReply
    /\ synopses' = erase(synopses, partition)
    /\ contents' = erase(contents, partition)
    /\ reply' = Reply("erase", partition,
                      IF partition \in DOMAIN synopses THEN "present" ELSE "absent",
                      Nil, <<>>, 0)
    /\ UNCHANGED <<bucket_order, memoized, mailbox, arrived, others, more>>

\* The bulk merge, called directly.
MergeBulk(ps) ==
    /\ reply = NoReply
    /\ synopses' = merge_bulk(synopses, [id \in DOMAIN ps |-> ps[id].synopsis])
    /\ contents' = merge_bulk(contents, [id \in DOMAIN ps |-> ps[id].events])
    /\ reply' = Reply("merge_bulk", Cardinality(DOMAIN ps),
                      IF DOMAIN ps \cap DOMAIN synopses # {} THEN "replaced" ELSE "new",
                      [id \in DOMAIN ps |-> ps[id].synopsis], <<>>, 0)
    /\ UNCHANGED <<bucket_order, memoized, mailbox, arrived, others, more>>

\* state.lookup(expr)
LookupCall(expr) ==
    /\ reply = NoReply
    /\ \E enabled \in Assertions(expr) :
         reply' = IF enabled /\ Asserts(synopses, expr)
                  THEN Reply("lookup", 0, "aborted", expr, <<>>, 0)
                  ELSE Reply("lookup", 0, "first", expr, lookup(synopses, expr), 0)
    /\ UNCHANGED <<synopses, bucket_order, contents, mailbox, arrived, others, more>>

Lookup(expr) == LookupCall(expr) /\ UNCHANGED memoized

\* state.memusage()
Memusage ==
    /\ reply = NoReply
    /\ reply' = Reply("memusage", 0, "", Nil, <<>>, memusage(synopses))
    /\ UNCHANGED <<synopses, bucket_order, contents, memoized, mailbox, arrived, others, more>>

\* The caller takes the result; the next call can be made.  After a failed
\* assertion there is no caller left.
Return ==
    /\ reply # NoReply
    /\ reply.note # "aborted"
    /\ reply' = NoReply
    /\ UNCHANGED <<synopses, bucket_order, contents, memoized, mailbox, arrived, others, more>>

Next ==
    \/ \E partition \in PartitionIds, sp \in SealedPartitions : Merge(partition, sp)
    \/ \E partition \in PartitionIds : Erase(partition)
    \/ \E ps \in BulkMaps : MergeBulk(ps)
    \/ \E expr \in Expressions : Lookup(expr)
    \/ Memusage
    \/ Return

Spec == Init /\ [][Next]_vars

\* ------------------------------------------- batches of merges and erases

\* Largest number of operations of a batch.
MaxBatch == 2

MergeOp(partition, sp) == [kind |-> "merge", id |-> partition, sp |-> sp]
EraseOp(partition) == [kind |-> "erase", id |-> partition, sp |-> PartitionA]

Ops ==
    {MergeOp(partition, sp) : partition \in PartitionIds, sp \in BulkPartitions}
    \cup {EraseOp(partition) : partition \in PartitionIds}

\* The batches: sequences of operations on pairwise distinct partition ids.
RECURSIVE BatchesOfLength(_)
BatchesOfLength(n) ==
    IF n = 0 THEN {<<>>}
    ELSE {Append(b, op) : <<b, op>> \in
            {<<b, op>> \in BatchesOfLength(n - 1) \X Ops :
                \A i \in 1..Len(b) : b[i].id # op.id}}

Batches == UNION {BatchesOfLength(n) : n \in 1..MaxBatch}

\* One call of state.merge or state.erase; `part` selects what is merged:
\* the synopsis (for synopses) or the events (for contents).
apply_op(S, op, part) ==
    IF op.kind = "merge" THEN merge(S, op.id, op.sp[part]) ELSE erase(S, op.id)

\* The calls of a batch, one after the other.
RECURSIVE ApplyAll(_, _, _)
ApplyAll(S, ops, part) ==
    IF ops = <<>> THEN S ELSE ApplyAll(apply_op(S, Head(ops), part), Tail(ops), part)

Batch(ops) ==
    /\ reply = NoReply
    /\ synopses' = ApplyAll(synopses, ops, "synopsis")
    /\ contents' = ApplyAll(contents, ops, "events")
    /\ reply' = Reply("batch", Len(ops),
                      IF /\ \E i \in 1..Len(ops) :
                              ops[i].kind = "erase" /\ ops[i].id \in DOMAIN synopses
                         /\ \E i \in 1..Len(ops) : ops[i].kind = "merge"
                      THEN "mixed" ELSE "",
                      ops, <<>>, 0)
    /\ UNCHANGED <<bucket_order, memoized, mailbox, arrived, others, more>>

NextBatch ==
    \/ \E ops \in Batches : Batch(ops)
    \/ Return

SpecBatch == Init /\ [][NextBatch]_vars

\* ---------------------------------------------- lookups and their memo

\* state.lookup(expr), with the local memoized_partitions watched.
Ask(expr) == LookupCall(expr) /\ memoized' = MemoAfter(synopses, expr)

\* The caller asks the same again, with no other call in between.
AskAgain ==
    /\ reply.op = "lookup"
    /\ reply.note = "first"
    /\ reply' = Reply("lookup", 0, "again", reply.expr, lookup(synopses, reply.expr), 0)
    /\ memoized' = MemoAfter(synopses, reply.expr)
    /\ UNCHANGED <<synopses, bucket_order, contents, mailbox, arrived, others, more>>

Requests ==
    {Leaves[1], Leaves[4], Leaves[6], Leaves[7], Leaves[17], Negation(Leaves[7]),
     Disjunction(<<Leaves[7], Negation(Leaves[7])>>),
     Conjunction(<<Negation(Leaves[1]), Leaves[6]>>)}

NextPure ==
    \/ \E partition \in PartitionIds, sp \in BulkPartitions : Merge(partition, sp)
    \/ \E partition \in PartitionIds : Erase(partition)
    \/ \E expr \in Requests : Ask(expr)
    \/ AskAgain
    \/ Return

SpecPure == Init /\ [][NextPure]_vars

\* ---------------------------------------------------------------- the actor

\* The partition ids and partitions the actor's clients send.
ActorIds == {1, 2}
ActorMaps ==
    {[id \in ActorIds |-> PartitionA], [id \in ActorIds |-> PartitionB]}
ActorRequests == {Negation(Leaves[1]), Leaves[1]}

\* S overwritten by the entries of m.
Overlay(S, m) ==
    [id \in DOMAIN S \cup DOMAIN m |-> IF id \in DOMAIN m THEN m[id] ELSE S[id]]

\* A message: its kind, what it carries, and (for a lookup) the answer that
\* the merges which arrived before it call for.
Message(kind, ps, expr, expect) ==
    [kind |-> kind, ps |-> ps, expr |-> expr, expect |-> expect]

\* The synopses a merge message carries, by partition id.
Carried(msg) == [id \in DOMAIN msg.ps |-> msg.ps[id].synopsis]

\* A client sends (atom::merge, partition, synopsis).
SendMerge(partition, sp) ==
    /\ Len(mailbox) < MaxMailbox
    /\ mailbox' = Append(mailbox,
                         Message("merge", [id \in {partition} |-> sp], Nil, <<>>))
    /\ arrived' = Overlay(arrived, [id \in {partition} |-> sp.synopsis])
    /\ UNCHANGED <<synopses, bucket_order, contents, reply, memoized, others, more>>

\* A client sends (atom::merge, map).
SendMergeBulk(ps) ==
    /\ Len(mailbox) < MaxMailbox
    /\ mailbox' = Append(mailbox, Message("merge_bulk", ps, Nil, <<>>))
    /\ arrived' = Overlay(arrived, [id \in DOMAIN ps |-> ps[id].synopsis])
    /\ UNCHANGED <<synopses, bucket_order, contents, reply, memoized, others, more>>

\* A client sends an expression.
SendLookup(expr) ==
    /\ Len(mailbox) < MaxMailbox
    /\ mailbox' = Append(mailbox, Message("lookup", <<>>, expr, lookup(arrived, expr)))
    /\ UNCHANGED <<synopses, bucket_order, contents, reply, memoized, arrived, others, more>>

\* The handler of (atom::merge, uuid, synopsis), run to completion.
HandleMerge ==
    /\ mailbox # <<>>
    /\ Head(mailbox).kind = "merge"
    /\ LET partition == CHOOSE id \in DOMAIN Head(mailbox).ps : TRUE
       IN synopses' = merge(synopses, partition, Carried(Head(mailbox))[partition])
    /\ mailbox' = Tail(mailbox)
    /\ reply' = Reply("ok", 0, "merge", Nil, <<>>, 0)
    /\ UNCHANGED <<bucket_order, contents, memoized, arrived, others, more>>

\* The handler of (atom::merge, map), run to completion.
HandleMergeBulk ==
    /\ mailbox # <<>>
    /\ Head(mailbox).kind = "merge_bulk"
    /\ synopses' = merge_bulk(synopses, Carried(Head(mailbox)))
    /\ mailbox' = Tail(mailbox)
    /\ reply' = Reply("ok", 0, "merge_bulk", Nil, <<>>, 0)
    /\ UNCHANGED <<bucket_order, contents, memoized, arrived, others, more>>

\* The handler of an expression, run to completion.
HandleLookup ==
    /\ mailbox # <<>>
    /\ Head(mailbox).kind = "lookup"
    /\ mailbox' = Tail(mailbox)
    /\ reply' = Reply("lookup", 0, "actor", Head(mailbox).expr,
                      lookup(synopses, Head(mailbox).expr), 0)
    /\ UNCHANGED <<synopses, bucket_order, contents, memoized, arrived, others, more>>

NextActor ==
    \/ \E partition \in ActorIds, sp \in BulkPartitions : SendMerge(partition, sp)
    \/ \E ps \in ActorMaps : SendMergeBulk(ps)
    \/ \E expr \in ActorRequests : SendLookup(expr)
    \/ HandleMerge
    \/ HandleMergeBulk
    \/ HandleLookup

SpecActor == Init /\ [][NextActor]_vars

\* ------------------------------------------- lookups of every shape

\* The partitions merged here.
ShapePartitions == {PartitionA, PartitionD, PartitionE, PartitionF}

\* Expressions with Nil in them.
NilRequests ==
    {Nil, Negation(Nil),
     Conjunction(<<Leaves[1], Nil>>), Conjunction(<<Nil, Leaves[1]>>),
     Disjunction(<<Leaves[1], Nil>>), Disjunction(<<Nil, Leaves[7]>>),
     Negation(Conjunction(<<Nil, Leaves[1]>>))}

\* Predicates with a left-hand side the meta index has no case for.
UnsupportedRequests ==
    {Predicate(DataExtractor, op, Cnt(1)) : op \in {"==", "!="}}
    \cup {Predicate(MetaExtractor("other"), op, Str(conn)) : op \in {"==", "!in"}}

\* #field predicates.
FieldNameRequests ==
    {Predicate(MetaExtractor("field"), op, rhs) :
        op \in {"==", "!=", "in", "!in", "<"},
        rhs \in {Str(query), Str(orig_h), Str(<<"d", ".", "q">>), Str(<<>>),
                 Cnt(1), Addr(1)}}

\* #type predicates.
LayoutRequests ==
    {Predicate(MetaExtractor("type"), op, rhs) :
        op \in {"==", "!=", "in"},
        rhs \in {Str(conn), Str(stamp), Str(<<"c", "d">>), Cnt(1)}}

\* The types asked for, with a right-hand side for each: a none_type with a
\* name, types without a name, and types that carry a name of their own.
QueryTypes ==
    {<<NamedQueryType("port"), Cnt(2)>>, <<NamedQueryType("timestamp"), Tm(2)>>,
     <<CountType, Cnt(2)>>, <<TimeType, Tm(2)>>, <<AttributedTimeType, Tm(2)>>,
     <<PortType, Cnt(2)>>, <<TimestampType, Tm(2)>>}

TypeRequests ==
    {Predicate(TypeExtractor(q[1]), op, q[2]) : q \in QueryTypes, op \in {"==", ">", "<"}}

ShapeRequests ==
    NilRequests \cup UnsupportedRequests \cup FieldNameRequests
    \cup LayoutRequests \cup TypeRequests

NextShapes ==
    \/ \E partition \in PartitionIds, sp \in ShapePartitions : Merge(partition, sp)
    \/ \E partition \in PartitionIds : Erase(partition)
    \/ \E expr \in ShapeRequests : Lookup(expr)
    \/ Return

SpecShapes == Init /\ [][NextShapes]_vars

\* ------------------------------------------- partitions with several hits

\* A partition with two count fields whose names end alike: the first holds
\* 0 only, the second 2 only.
gauge == <<"g">>
resp_p == <<"r", "p">>
GaugeLayout ==
    [name |-> gauge,
     fields |-> <<[name |-> orig_p, type |-> CountType, syn |-> "minmax"],
                  [name |-> resp_p, type |-> CountType, syn |-> "minmax"]>>]
PartitionG == Sealed(<<GaugeLayout>>, {Event(GaugeLayout, <<Cnt(0), Cnt(2)>>)}, <<>>)

\* A partition with a count field that has a synopsis of its own (0 only)
\* and one that relies on the synopsis of the type count (0 and 2).
hybrid == <<"y">>
HybridLayout ==
    [name |-> hybrid,
     fields |-> <<[name |-> orig_p, type |-> CountType, syn |-> "minmax"],
                  [name |-> resp_p, type |-> CountType, syn |-> "none"]>>]
PartitionH ==
    Sealed(<<HybridLayout>>, {Event(HybridLayout, <<Cnt(0), Cnt(2)>>)},
           <<[type |-> CountType, syn |-> "minmax"]>>)

SearchPartitions == {PartitionA, PartitionB, PartitionE, PartitionG, PartitionH}

\* Predicates with a field or a type extractor.
SearchRequests ==
    {Predicate(lhs, op, Cnt(n)) :
        lhs \in {FieldExtractor(<<"p">>), FieldExtractor(orig_h), FieldExtractor(<<"x">>),
                 FieldExtractor(hybrid \o <<".">> \o orig_p), FieldExtractor(resp_p),
                 TypeExtractor(CountType), TypeExtractor(NamedQueryType("port"))},
        op \in {"==", "<", ">"}, n \in 0..2}
    \cup {Predicate(lhs, op, Tm(2)) :
            lhs \in {FieldExtractor(<<"h">>), TypeExtractor(TimeType),
                     TypeExtractor(NamedQueryType("timestamp"))},
            op \in {"<", ">"}}

NextSearch ==
    \/ \E partition \in PartitionIds, sp \in SearchPartitions : Merge(partition, sp)
    \/ \E partition \in PartitionIds : Erase(partition)
    \/ \E expr \in SearchRequests : Lookup(expr)
    \/ Return

SpecSearch == Init /\ [][NextSearch]_vars

\* ------------------------------------------------ the end-to-end scenario

\* 10.0.0.1, 10.0.0.2 and 192.168.1.1 stand as the number of their two low
\* octets: 1, 2 and 257.
ScenarioA ==
    Sealed(<<ConnLayout>>,
           {Event(ConnLayout, <<Addr(1), Cnt(80)>>),
            Event(ConnLayout, <<Addr(2), Cnt(443)>>)}, <<>>)
ScenarioB ==
    Sealed(<<DnsLayout>>,
           {Event(DnsLayout, <<Str(<<"e", "x", "a", "m", "p", "l", "e", ".", "c", "o", "m">>)>>)},
           <<>>)
ScenarioC ==
    Sealed(<<ConnLayout>>, {Event(ConnLayout, <<Addr(257), Cnt(53)>>)}, <<>>)

\* The partition ids of A, B and C.
ScenarioPartitions == <<ScenarioA, ScenarioB, ScenarioC>>

BothEndpoints ==
    Conjunction(<<Predicate(FieldExtractor(orig_h), "==", Addr(1)),
                  Predicate(FieldExtractor(orig_p), "==", Cnt(80))>>)
LowPort == Predicate(FieldExtractor(orig_p), "<", Cnt(100))

ScenarioRequests ==
    {BothEndpoints, LowPort,
     Predicate(MetaExtractor("type"), "==", Str(conn)),
     Predicate(MetaExtractor("field"), "==", Str(query)),
     Predicate(FieldExtractor(orig_h), "==", Addr(257))}

NextScenario ==
    \/ \E partition \in DOMAIN ScenarioPartitions :
          Merge(partition, ScenarioPartitions[partition])
    \/ \E partition \in PartitionIds : Erase(partition)
    \/ \E expr \in ScenarioRequests : Lookup(expr)
    \/ Return

SpecScenario == Init /\ [][NextScenario]_vars

\* ------------------------------------------------- one synopsis on its own

\* The meta index with nothing in it and no call under way.
IndexIdle ==
    /\ synopses = <<>>
    /\ bucket_order = [i \in 1..MaxPartition |-> i]
    /\ contents = <<>>
    /\ reply = NoReply
    /\ memoized = <<>>
    /\ mailbox = <<>>
    /\ arrived = <<>>

\* Largest number of add calls on a synopsis.
MaxAdds == 3

\* The kinds of synopsis, each with the type of the values it summarises.
SynopsisKinds ==
    {<<"bloom", "count">>, <<"bloom", "string">>, <<"minmax", "count">>,
     <<"bool", "bool">>}

\* The synopsis of a kind before any add.
EmptySynopsis(kind, tag) ==
    IF kind = "bool" THEN BoolTally(0, 0) ELSE SynopsisOf(kind, tag, {})

\* The values added and probed, by type.
ValuesOf(tag) ==
    CASE tag = "count" -> {Cnt(n) : n \in 0..3}
      [] tag = "string" -> {Str(<<>>), Str(<<"c">>), Str(<<"d">>), Str(<<"c", "d">>)}
      [] tag = "bool" -> {Bool(TRUE), Bool(FALSE)}

Probes ==
    ValuesOf("count") \cup ValuesOf("string") \cup ValuesOf("bool")
    \cup {List({Cnt(0)}), List({Cnt(1), Cnt(3)}), List({Str(<<"c">>), Cnt(2)}),
          List({Str(<<"d">>), Str(<<"c", "d">>)})}

NoAnswer == [op |-> "", probe |-> Cnt(0), opt |-> ""]

Summary(synopsis, added, answer) ==
    [state |-> "open", synopsis |-> synopsis, added |-> added, answer |-> answer]

InitSynopsis ==
    /\ IndexIdle
    /\ summary \in {Summary(EmptySynopsis(k[1], k[2]), <<>>, NoAnswer) : k \in SynopsisKinds}
    /\ json = Idle
    /\ conversion = Idle
    /\ schemas = Idle
    /\ MoreIdle

\* synopsis.add(v)
Add(v) ==
    /\ Len(summary.added) < MaxAdds
    /\ v \in ValuesOf(summary.synopsis.tag)
    /\ summary' = Summary(synopsis_add(summary.synopsis, v),
                          Append(summary.added, v), NoAnswer)
    /\ UNCHANGED <<index, json, conversion, schemas, more>>

\* synopsis.lookup(op, probe)
Probe(op, probe) ==
    /\ summary' = [summary EXCEPT
                     !.answer = [op |-> op, probe |-> probe,
                                 opt |-> SynopsisLookup(summary.synopsis, op, probe)]]
    /\ UNCHANGED <<index, json, conversion, schemas, more>>

NextSynopsis ==
    \/ \E v \in Probes : Add(v)
    \/ \E op \in RelOps, probe \in Probes : Probe(op, probe)

SpecSynopsis == InitSynopsis /\ [][NextSynopsis]_vars

\* ------------------------------------------------- the JSON reader: lookup

\* A JSON value: a number or an object; an object is a function from its
\* keys (strings) to values.
JsonNumber(n) == [t |-> "number", n |-> n]
JsonObject(o) == [t |-> "object", o |-> o]

\* simdjson_result: a value, or an error code.
Found(value) == [error |-> "SUCCESS", value |-> value]
NoSuchField == [error |-> "NO_SUCH_FIELD"]
IncorrectType == [error |-> "INCORRECT_TYPE"]

\* dom::object::at_key
at_key(xs, key) == IF key \in DOMAIN xs THEN Found(xs[key]) ELSE NoSuchField

\* dom::element::get_object
get_object(r) == IF r.t = "object" THEN Found(r.o) ELSE IncorrectType

\* std::string_view::find('.'): the first position of a dot, 0 for npos.
find_dot(field) ==
    IF \E i \in 1..Len(field) : field[i] = "."
    THEN CHOOSE i \in 1..Len(field) :
             field[i] = "." /\ \A j \in 1..(i - 1) : field[j] # "."
    ELSE 0

\* lookup(field, xs): the flat key is tried only when the first component
\* is missing; a first component that is no object ends the lookup with
\* INCORRECT_TYPE, and so does a failure further down the path.
RECURSIVE simdjson_lookup(_, _)
simdjson_lookup(field, xs) ==
    LET i == find_dot(field)
        first == at_key(xs, SubSeq(field, 1, i - 1))
    IN IF i = 0 THEN at_key(xs, field)
       ELSE IF first.error # "SUCCESS" THEN at_key(xs, field)
       ELSE IF get_object(first.value).error # "SUCCESS" THEN IncorrectType
       ELSE simdjson_lookup(SubSeq(field, i + 1, Len(field)),
                            get_object(first.value).value)

\* The names of the fields and the keys of the objects.
NameA == <<"a">>
NameB == <<"b">>
NameC == <<"c">>
Dotted(x, y) == x \o <<".">> \o y

JsonNumbers == {JsonNumber(1), JsonNumber(2)}

\* Objects of numbers.
InnerObjects ==
    UNION {[ks -> JsonNumbers] : ks \in SUBSET {NameB, Dotted(NameB, NameC)}}

\* Objects of numbers and of objects of numbers.
OuterObjects ==
    UNION {[ks -> JsonNumbers \cup {JsonObject(o) : o \in InnerObjects}] :
             ks \in SUBSET {NameA, NameB, Dotted(NameA, NameB)}}

\* The fields of the layout that are looked up in an object.
JsonFields ==
    {NameA, NameB, Dotted(NameA, NameB), Dotted(NameA, NameC),
     Dotted(NameA, Dotted(NameB, NameC))}

Parsed(object) == [state |-> "parsed", object |-> object]
LookedUp(object, field, result) ==
    [state |-> "looked up", object |-> object, field |-> field, result |-> result]

InitJson ==
    /\ IndexIdle
    /\ summary = Idle
    /\ json \in {Parsed(o) : o \in OuterObjects}
    /\ conversion = Idle
    /\ schemas = Idle
    /\ MoreIdle

\* lookup(field, xs), for a field of the layout and the object of a line.
LookupField(field) ==
    /\ json.state = "parsed"
    /\ json' = LookedUp(json.object, field, simdjson_lookup(field, json.object))
    /\ UNCHANGED <<index, summary, conversion, schemas, more>>

NextJson == \E field \in JsonFields : LookupField(field)

SpecJson == InitJson /\ [][NextJson]_vars

\* ------------------------------------------- the JSON reader: conversions

\* The width in bits of integer (signed) and count (unsigned).
IntBits == 4

MinInteger == -(2 ^ (IntBits - 1))
MaxInteger == 2 ^ (IntBits - 1) - 1
MaxCount == 2 ^ IntBits - 1

Integer(n) == [tag |-> "integer", n |-> n]
\* A real with one decimal place: the number of its tenths.
Real(tenths) == [tag |-> "real", tenths |-> tenths]

Digits == <<"0", "1", "2", "3", "4", "5", "6", "7", "8", "9">>
IsDigit(c) == \E d \in 1..Len(Digits) : Digits[d] = c
DigitValue(c) == (CHOOSE d \in 1..Len(Digits) : Digits[d] = c) - 1

\* The value of a non-empty sequence of digits.
RECURSIVE DecimalValue(_)
DecimalValue(s) ==
    IF s = <<>> THEN 0
    ELSE 10 * DecimalValue(SubSeq(s, 1, Len(s) - 1)) + DigitValue(s[Len(s)])

AllDigits(s) == s # <<>> /\ \A i \in 1..Len(s) : IsDigit(s[i])

\* A parser's outcome: whether the whole string was accepted, and the value.
Accepted(x) == [ok |-> TRUE, x |-> x]
Rejected == [ok |-> FALSE]

\* parsers::json_count: digits.
json_count(s) ==
    IF AllDigits(s) /\ DecimalValue(s) <= MaxCount
    THEN Accepted(DecimalValue(s)) ELSE Rejected

\* parsers::json_int: an optional minus sign and digits.
json_int(s) ==
    LET negative == s # <<>> /\ Head(s) = "-"
        digits == IF negative THEN Tail(s) ELSE s
        x == IF negative THEN -DecimalValue(digits) ELSE DecimalValue(digits)
    IN IF AllDigits(digits) /\ x >= MinInteger /\ x <= MaxInteger
       THEN Accepted(x) ELSE Rejected

\* parsers::json_number: an optional minus sign, digits and at most one
\* decimal place; the value in tenths.
json_number(s) ==
    LET negative == s # <<>> /\ Head(s) = "-"
        unsigned == IF negative THEN Tail(s) ELSE s
        fractional == Len(unsigned) >= 3 /\ unsigned[Len(unsigned) - 1] = "."
        whole == IF fractional THEN SubSeq(unsigned, 1, Len(unsigned) - 2) ELSE unsigned
        tenths == 10 * DecimalValue(whole)
                  + (IF fractional THEN DigitValue(unsigned[Len(unsigned)]) ELSE 0)
    IN IF AllDigits(whole) /\ (fractional => IsDigit(unsigned[Len(unsigned)]))
       THEN Accepted(IF negative THEN -tenths ELSE tenths) ELSE Rejected

\* A real with its fraction cut off, as a conversion to an integral type
\* does.
Truncated(tenths) == IF tenths >= 0 THEN tenths \div 10 ELSE -((-tenths) \div 10)

\* detail::narrow_cast<count>(integer): static_cast, the value modulo 2^IntBits.
narrow_cast_count(n) == n % (2 ^ IntBits)

\* detail::narrow_cast<integer>(real): static_cast; the results a build may
\* give: the truncated value when integer can hold it, else any integer.
narrow_cast_integer_of_real(tenths) ==
    IF Truncated(tenths) >= MinInteger /\ Truncated(tenths) <= MaxInteger
    THEN {Truncated(tenths)} ELSE MinInteger..MaxInteger

\* detail::narrow_cast<count>(real): static_cast; the truncated value when
\* count can hold it, else any count.
narrow_cast_count_of_real(tenths) ==
    IF Truncated(tenths) >= 0 /\ Truncated(tenths) <= MaxCount
    THEN {Truncated(tenths)} ELSE 0..MaxCount

\* caf::expected<data>: the data and whether the narrowing was logged.
Converted(d, warned) == [ok |-> TRUE, data |-> d, warned |-> warned]
ConvertError == [ok |-> FALSE, error |-> "convert_error"]

\* type_biased_convert_impl<std::string_view, integer>: the results it may
\* return.
convert_string_to_integer(s) ==
    IF json_int(s).ok THEN {Converted(Integer(json_int(s).x), FALSE)}
    ELSE IF json_number(s).ok
    THEN {Converted(Integer(x), TRUE) : x \in narrow_cast_integer_of_real(json_number(s).x)}
    ELSE {ConvertError}

\* type_biased_convert_impl<integer, count>
convert_integer_to_count(n) == {Converted(Cnt(narrow_cast_count(n)), FALSE)}

\* type_biased_convert_impl<std::string_view, count>
convert_string_to_count(s) ==
    IF json_count(s).ok THEN {Converted(Cnt(json_count(s).x), FALSE)}
    ELSE IF json_number(s).ok
    THEN {Converted(Cnt(x), TRUE) : x \in narrow_cast_count_of_real(json_number(s).x)}
    ELSE {ConvertError}

\* The JSON integers and the strings handed to the conversions.
JsonIntegers == MinInteger..MaxInteger

JsonStrings ==
    {sign \o whole \o fraction :
        sign \in {<<>>, <<"-">>},
        whole \in {<<"0">>, <<"3">>, <<"7">>, <<"1", "2">>},
        fraction \in {<<>>, <<".", "0">>, <<".", "7">>}}
    \cup {<<>>, <<"x">>, <<"3", ".">>}

\* An input: the JSON value and the type of the field it is converted to.
FromInteger(n) == [state |-> "input", from |-> "integer", to |-> "count", n |-> n]
FromString(s, to) == [state |-> "input", from |-> "string", to |-> to, s |-> s]

Inputs ==
    {FromInteger(n) : n \in JsonIntegers}
    \cup {FromString(s, to) : s \in JsonStrings, to \in {"integer", "count"}}

InitConvert ==
    /\ IndexIdle
    /\ summary = Idle
    /\ json = Idle
    /\ conversion \in Inputs
    /\ schemas = Idle
    /\ MoreIdle

\* convert(e, t), for an element that is an integer or a string and a field
\* of type integer or count.
Convert ==
    /\ conversion.state = "input"
    /\ \E result \in IF conversion.from = "integer"
                     THEN convert_integer_to_count(conversion.n)
                     ELSE IF conversion.to = "integer"
                     THEN convert_string_to_integer(conversion.s)
                     ELSE convert_string_to_count(conversion.s) :
         conversion' = [state |-> "converted", input |-> conversion, result |-> result]
    /\ UNCHANGED <<index, summary, json, schemas, more>>

NextConvert == Convert

SpecConvert == InitConvert /\ [][NextConvert]_vars

\* ------------------------------------------------------------- the schema

\* A schema is its types_: a sequence of types.

\* schema::find(name): the position of the first type of that name, 0 for
\* nullptr.
schema_find(types_, name) ==
    IF \E i \in 1..Len(types_) : types_[i].name = name
    THEN CHOOSE i \in 1..Len(types_) :
             types_[i].name = name /\ \A j \in 1..(i - 1) : types_[j].name # name
    ELSE 0

\* An add that takes every type.
schema_add_unchecked(types_, t) == [ok |-> TRUE, types_ |-> Append(types_, t)]

\* schema::add(t): whether t was added, and types_ after the call.
schema_add(types_, t) ==
    IF t.kind = "none" \/ t.name = "" \/ schema_find(types_, t.name) # 0
    THEN [ok |-> FALSE, types_ |-> types_]
    ELSE [ok |-> TRUE, types_ |-> Append(types_, t)]

\* The loop of combine over s2, from its i-th type on.
RECURSIVE CombineLoop(_, _, _)
CombineLoop(result, s2, i) ==
    IF i > Len(s2) THEN result
    ELSE LET t == s2[i]
             x == schema_find(result, t.name)
         IN CombineLoop(IF x # 0 THEN [result EXCEPT ![x] = t]
                        ELSE schema_add(result, t).types_, s2, i + 1)

\* A combine that keeps the definition it already has.
RECURSIVE CombineLoopKeeps(_, _, _)
CombineLoopKeeps(result, s2, i) ==
    IF i > Len(s2) THEN result
    ELSE CombineLoopKeeps(schema_add(result, s2[i]).types_, s2, i + 1)

schema_combine_keeps(s1, s2) == CombineLoopKeeps(s1, s2, 1)

\* schema::combine(s1, s2)
schema_combine(s1, s2) == CombineLoop(s1, s2, 1)

\* caf::expected<schema>
Expected(types_) == [ok |-> TRUE, types_ |-> types_]
FormatError == [ok |-> FALSE, types_ |-> <<>>]

\* The loop of merge over s1, from its i-th type on.
RECURSIVE MergeLoop(_, _, _, _)
MergeLoop(result, s1, s2, i) ==
    IF i > Len(s1) THEN Expected(result)
    ELSE LET t == s1[i]
             u == schema_find(s2, t.name)
         IN IF u # 0
            THEN IF t # s2[u] /\ t.name = s2[u].name THEN FormatError
                 ELSE MergeLoop(result, s1, s2, i + 1)
            ELSE MergeLoop(Append(result, t), s1, s2, i + 1)

\* A merge that does not look for clashes: s2 and what s1 adds to it.
schema_merge_unchecked(s1, s2) ==
    Expected(s2 \o SelectSeq(s1, LAMBDA t : schema_find(s2, t.name) = 0))

\* schema::merge(s1, s2)
schema_merge(s1, s2) == MergeLoop(s2, s1, s2, 1)

\* The types handed to add: with and without a name, none among them.
SchemaTypes ==
    {Type(kind, name, {}) : kind \in {"none", "count", "time"},
                            name \in {"", "port", "timestamp"}}

\* The two schemata the callers hold.
SchemaIds == {1, 2}

\* A call on the schemata: the operation, the schemata before it, the type
\* added and the schema it was added to, and what the call returned.
SchemaCall(op, s, k, t, ok, out) ==
    [op |-> op, s |-> s, k |-> k, t |-> t, ok |-> ok, out |-> out]
NoSchemaCall == SchemaCall("none", <<>>, 0, Type("none", "", {}), TRUE, <<>>)

Schemas(s, last) == [state |-> "open", s |-> s, last |-> last]

InitSchema ==
    /\ IndexIdle
    /\ summary = Idle
    /\ json = Idle
    /\ conversion = Idle
    /\ schemas = Schemas(<<<<>>, <<>>>>, NoSchemaCall)
    /\ MoreIdle

\* s[k].add(t)
SchemaAdd(k, t) ==
    /\ schemas' = Schemas([schemas.s EXCEPT ![k] = schema_add(@, t).types_],
                          SchemaCall("add", schemas.s, k, t,
                                     schema_add(schemas.s[k], t).ok, <<>>))
    /\ UNCHANGED <<index, summary, json, conversion, more>>

\* schema::combine(s[k], s[3 - k])
SchemaCombine(k) ==
    /\ schemas' = Schemas(schemas.s,
                          SchemaCall("combine", schemas.s, k, NoSchemaCall.t, TRUE,
                                     schema_combine(schemas.s[k], schemas.s[3 - k])))
    /\ UNCHANGED <<index, summary, json, conversion, more>>

\* schema::merge(s[k], s[3 - k])
SchemaMerge(k) ==
    /\ schemas' = Schemas(schemas.s,
                          SchemaCall("merge", schemas.s, k, NoSchemaCall.t,
                                     schema_merge(schemas.s[k], schemas.s[3 - k]).ok,
                                     schema_merge(schemas.s[k], schemas.s[3 - k]).types_))
    /\ UNCHANGED <<index, summary, json, conversion, more>>

\* The caller keeps the schema that combine or merge returned as s[k].
SchemaAssign(k) ==
    /\ schemas.last.op \in {"combine", "merge"}
    /\ schemas.last.ok
    /\ schemas' = Schemas([schemas.s EXCEPT ![k] = schemas.last.out], NoSchemaCall)
    /\ UNCHANGED <<index, summary, json, conversion, more>>

\* s[k].clear()
SchemaClear(k) ==
    /\ schemas' = Schemas([schemas.s EXCEPT ![k] = <<>>], NoSchemaCall)
    /\ UNCHANGED <<index, summary, json, conversion, more>>

NextSchema ==
    \/ \E k \in SchemaIds, t \in SchemaTypes : SchemaAdd(k, t)
    \/ \E k \in SchemaIds : SchemaCombine(k)
    \/ \E k \in SchemaIds : SchemaMerge(k)
    \/ \E k \in SchemaIds : SchemaAssign(k)
    \/ \E k \in SchemaIds : SchemaClear(k)

SpecSchema == InitSchema /\ [][NextSchema]_vars

\* ------------------------------------------------------- the type registry

\* A layout: a record type with a name; its fields as a set of names.
Layout(name, fields) == [kind |-> "record", name |-> name, attrs |-> {}, fields |-> fields]

\* type_set::insert: the set keeps its elements in the order they came in;
\* the position of the element, and whether it was new.
type_set_insert(bucket, layout) ==
    IF \E i \in 1..Len(bucket) : bucket[i] = layout
    THEN [hint |-> CHOOSE i \in 1..Len(bucket) : bucket[i] = layout,
          success |-> FALSE, bucket |-> bucket]
    ELSE [hint |-> Len(bucket) + 1, success |-> TRUE, bucket |-> Append(bucket, layout)]

\* The first and the inserted layout trading places.
swap_with_front(bucket, hint) ==
    [i \in 1..Len(bucket) |->
        IF i = 1 THEN bucket[hint] ELSE IF i = hint THEN bucket[1] ELSE bucket[i]]

\* std::rotate(begin, hint, next(hint)): the element at hint comes first,
\* those before it move back by one.
rotate(bucket, hint) ==
    <<bucket[hint]>> \o SubSeq(bucket, 1, hint - 1) \o SubSeq(bucket, hint + 1, Len(bucket))

\* data[name]: the bucket of the name, empty when the name is new.
BucketOf(data, name) == IF name \in DOMAIN data THEN data[name] ELSE <<>>

\* type_registry_state::insert(layout): data after the call (what it logs
\* about the change of the layout is left out).
registry_insert(data, layout) ==
    LET ins == type_set_insert(BucketOf(data, layout.name), layout)
    IN (layout.name :> rotate(ins.bucket, ins.hint)) @@ data

\* The layouts that arrive: three versions under each of two names.
Layouts ==
    {Layout(name, fields) : name \in {"conn", "dns"},
                            fields \in {{"a"}, {"a", "b"}, {"c"}}}

\* Longest schema put in one message.
MaxPut == 2

PutSchemas == UNION {[1..n -> Layouts] : n \in 0..MaxPut}

\* The data, the layout of the last insert, and the data before it.
Registry(data, op, layout, before) ==
    [state |-> "open", data |-> data, op |-> op, layout |-> layout, before |-> before]

InitRegistry ==
    /\ IndexIdle
    /\ summary = Idle
    /\ json = Idle
    /\ conversion = Idle
    /\ schemas = Idle
    /\ registry = Registry(<<>>, "none", Layout("", {}), <<>>)
    /\ plugins = Idle
    /\ options = Idle
    /\ ingestor = Idle

\* The handler of (atom::put, vast::type) and the sink of the table slices.
PutType(layout) ==
    /\ registry' = Registry(registry_insert(registry.data, layout), "put",
                            layout, registry.data)
    /\ UNCHANGED <<index, others, plugins, options, ingestor>>

\* The data after the inserts of x[1], ..., x[n].
RECURSIVE InsertAll(_, _, _)
InsertAll(data, x, n) ==
    IF n = 0 THEN data ELSE registry_insert(InsertAll(data, x, n - 1), x[n])

\* The handler of (atom::put, vast::schema): one insert per type.
PutSchema(x) ==
    /\ x # <<>>
    /\ registry' = Registry(InsertAll(registry.data, x, Len(x)), "put schema",
                            x[Len(x)], InsertAll(registry.data, x, Len(x) - 1))
    /\ UNCHANGED <<index, others, plugins, options, ingestor>>

NextRegistry ==
    \/ \E layout \in Layouts : PutType(layout)
    \/ \E x \in PutSchemas : PutSchema(x)

SpecRegistry == InitRegistry /\ [][NextRegistry]_vars

\* -------------------------------------------------------------- the plugins

\* plugin_type_id_block: the ids [begin, end).
Block(begin, end) == [begin |-> begin, end |-> end]

\* The test of plugin_ptr::make on two blocks, with only the begin of the
\* new block looked for in the old one.
clash_begin_inside(new_block, old_block) ==
    old_block.begin <= new_block.begin /\ new_block.begin < old_block.end

\* The test of plugin_ptr::make on a new and an old block.
clash(new_block, old_block) ==
    new_block.begin < old_block.end /\ old_block.begin < new_block.end

\* A plugin library: whether dlopen and the checks of its symbols and
\* versions succeed, whether it has vast_plugin_type_id_block and
\* vast_plugin_register_type_id_block, and its block.
Library(loads, has_block, has_register, block) ==
    [loads |-> loads, has_block |-> has_block, has_register |-> has_register,
     block |-> block]

\* Largest type id used in a block.
MaxTypeId == 3

PluginFiles ==
    {Library(FALSE, FALSE, FALSE, Block(0, 0)),
     Library(TRUE, FALSE, FALSE, Block(0, 0)),
     Library(TRUE, TRUE, FALSE, Block(0, 1))}
    \cup {Library(TRUE, TRUE, TRUE, Block(b, e)) :
            <<b, e>> \in {<<0, 1>>, <<0, 2>>, <<1, MaxTypeId>>, <<2, MaxTypeId>>, <<2, 2>>}}

\* Largest number of calls of make, and of plugin_ptr objects alive at once.
MaxLoads == 3
MaxPtrs == 2

\* A plugin_ptr: library_, instance_ and deleter_ (0: null; an instance, its
\* library and its deleter carry the number of the make that created them).
PluginPtr(library_, instance_, deleter_) ==
    [alive |-> TRUE, library_ |-> library_, instance_ |-> instance_, deleter_ |-> deleter_]
\* No object in this place.
NoPtr == [alive |-> FALSE, library_ |-> 0, instance_ |-> 0, deleter_ |-> 0]

\* What make does up to its return statement: "error", or "ok" with the
\* blocks recorded and the blocks registered with the actor system config.
make_blocks(file, old_blocks, registered) ==
    IF ~file.loads THEN [ok |-> FALSE, old_blocks |-> old_blocks, registered |-> registered]
    ELSE IF ~file.has_block
    THEN [ok |-> TRUE, old_blocks |-> old_blocks, registered |-> registered]
    ELSE IF ~file.has_register
    THEN [ok |-> FALSE, old_blocks |-> old_blocks, registered |-> registered]
    ELSE IF \E i \in 1..Len(old_blocks) : clash(file.block, old_blocks[i])
    THEN [ok |-> FALSE, old_blocks |-> old_blocks, registered |-> registered]
    ELSE [ok |-> TRUE, old_blocks |-> Append(old_blocks, file.block),
          registered |-> Append(registered, file.block)]

\* The last call: the operation, the file made, whether make succeeded, and
\* the blocks recorded and registered before it.
PluginCall(op, file, ok, old_blocks, registered) ==
    [op |-> op, file |-> file, ok |-> ok, old_blocks |-> old_blocks,
     registered |-> registered]
NoPluginCall == PluginCall("none", Library(FALSE, FALSE, FALSE, Block(0, 0)), TRUE, <<>>, <<>>)

InitPlugin ==
    /\ IndexIdle
    /\ summary = Idle
    /\ json = Idle
    /\ conversion = Idle
    /\ schemas = Idle
    /\ registry = Idle
    /\ plugins = [state |-> "open", old_blocks |-> <<>>, registered |-> <<>>,
                  ptrs |-> [p \in 1..MaxPtrs |-> NoPtr],
                  made |-> 0, instances |-> {}, destroyed |-> <<>>, closed |-> <<>>,
                  last |-> NoPluginCall]
    /\ options = Idle
    /\ ingestor = Idle

\* auto x = plugin_ptr::make(filename, cfg), the plugin_ptr kept at place p
\* when make succeeded.
Make(p, file) ==
    LET done == make_blocks(file, plugins.old_blocks, plugins.registered)
        n == plugins.made + 1
    IN /\ plugins.made < MaxLoads
       /\ ~plugins.ptrs[p].alive
       /\ plugins' = [plugins EXCEPT
                        !.old_blocks = done.old_blocks,
                        !.registered = done.registered,
                        !.made = n,
                        !.instances = IF done.ok THEN @ \cup {n} ELSE @,
                        !.destroyed = Append(@, 0),
                        !.closed = Append(@, 0),
                        !.ptrs[p] = IF done.ok THEN PluginPtr(n, n, n) ELSE NoPtr,
                        !.last = PluginCall("make", file, done.ok,
                                            plugins.old_blocks, plugins.registered)]
       /\ UNCHANGED <<index, others, registry, options, ingestor>>

\* plugin_ptr{std::move(other)}: a new object at place p.
MoveConstruct(p, other) ==
    /\ ~plugins.ptrs[p].alive
    /\ plugins.ptrs[other].alive
    /\ plugins' = [plugins EXCEPT
                     !.ptrs[p] = plugins.ptrs[other],
                     !.ptrs[other] = PluginPtr(0, 0, 0),
                     !.last = PluginCall("move", NoPluginCall.file, TRUE,
                                         plugins.old_blocks, plugins.registered)]
    /\ UNCHANGED <<index, others, registry, options, ingestor>>

\* operator=(plugin_ptr&& rhs) on the object at place p: each member takes
\* what std::exchange(rhs.member, {}) returns.
MoveAssign(p, rhs) ==
    /\ plugins.ptrs[p].alive
    /\ plugins.ptrs[rhs].alive
    /\ plugins' = [plugins EXCEPT
                     !.ptrs = [q \in 1..MaxPtrs |->
                                 IF q = p THEN plugins.ptrs[rhs]
                                 ELSE IF q = rhs THEN PluginPtr(0, 0, 0)
                                 ELSE plugins.ptrs[q]],
                     !.last = PluginCall("assign", NoPluginCall.file, TRUE,
                                         plugins.old_blocks, plugins.registered)]
    /\ UNCHANGED <<index, others, registry, options, ingestor>>

\* ~plugin_ptr() on the object at place p.
Destroy(p) ==
    LET ptr == plugins.ptrs[p]
    IN /\ ptr.alive
       /\ plugins' = [plugins EXCEPT
                        !.destroyed = IF ptr.instance_ # 0
                                      THEN [@ EXCEPT ![ptr.deleter_] = @ + 1] ELSE @,
                        !.closed = IF ptr.library_ # 0
                                   THEN [@ EXCEPT ![ptr.library_] = @ + 1] ELSE @,
                        !.ptrs[p] = NoPtr,
                        !.last = PluginCall("destroy", NoPluginCall.file, TRUE,
                                            plugins.old_blocks, plugins.registered)]
       /\ UNCHANGED <<index, others, registry, options, ingestor>>

NextPlugin ==
    \/ \E p \in 1..MaxPtrs, file \in PluginFiles : Make(p, file)
    \/ \E p \in 1..MaxPtrs, other \in 1..MaxPtrs : MoveConstruct(p, other)
    \/ \E p \in 1..MaxPtrs, rhs \in 1..MaxPtrs : MoveAssign(p, rhs)
    \/ \E p \in 1..MaxPtrs : Destroy(p)

SpecPlugin == InitPlugin /\ [][NextPlugin]_vars

\* ------------------------------------------------- option declarations
\* libvast/src/option_declaration_set.cpp.  A string is the sequence of its
\* characters.  long_opts_ and short_opts_ are maps with unique keys from a
\* name to the declaration (a position in decls) that the shared pointer
\* refers to.

\* std::string::find(c): the position of the first c, 0 for npos.
str_find(s, c) ==
    IF \E i \in 1..Len(s) : s[i] = c
    THEN CHOOSE i \in 1..Len(s) : s[i] = c /\ \A j \in 1..(i - 1) : s[j] # c
    ELSE 0

\* map::insert(make_pair(k, v)): a key that is present keeps its value.
map_insert(m, k, v) == IF k \in DOMAIN m THEN m ELSE m @@ (k :> v)

RECURSIVE InsertShorts(_, _, _)
InsertShorts(m, short_names, v) ==
    IF short_names = <<>> THEN m
    ELSE InsertShorts(map_insert(m, Head(short_names), v), Tail(short_names), v)

\* The default values declared: a flag, a count and none.
Flag == [type |-> "bool", value |-> 0]
CountDefault == [type |-> "count", value |-> 0]
NoneDefault == [type |-> "none", value |-> 0]

option_declaration(long_name, short_names, has_argument, default_value) ==
    [long_name |-> long_name, short_names |-> short_names,
     has_argument |-> has_argument, default_value |-> default_value]

\* Every option takes an argument.
has_argument_always(default_value) == TRUE

\* An option takes an argument unless its default value is a bool.
has_argument(default_value) == default_value.type # "bool"

\* The long name and the short names of "long,shorts".
split_name(name) ==
    LET idx == str_find(name, ",")
    IN IF idx = 0 THEN [long_name |-> name, short_names |-> <<>>]
       ELSE [long_name |-> SubSeq(name, 1, idx - 1),
             short_names |-> SubSeq(name, idx + 1, Len(name))]

\* The validation of add without the test of the short names.
names_free_long_only(set, n) ==
    /\ n.long_name # <<>>
    /\ n.long_name \notin DOMAIN set.long_opts_

\* The validation of add: a long name, not in use, and no short name in use.
names_free(set, n) ==
    /\ n.long_name # <<>>
    /\ n.long_name \notin DOMAIN set.long_opts_
    /\ \A i \in 1..Len(n.short_names) : n.short_names[i] \notin DOMAIN set.short_opts_

\* add(name, description, default_value) on the set [decls, long_opts_,
\* short_opts_]: the outcome and the set afterwards.
option_add(set, name, default_value) ==
    LET n == split_name(name)
        id == Len(set.decls) + 1
        option == option_declaration(n.long_name, n.short_names,
                                     has_argument(default_value), default_value)
    IN IF ~names_free(set, n) THEN [ok |-> FALSE, set |-> set]
       ELSE [ok |-> TRUE,
             set |-> [decls |-> Append(set.decls, option),
                      long_opts_ |-> map_insert(set.long_opts_, n.long_name, id),
                      short_opts_ |-> InsertShorts(set.short_opts_, n.short_names, id)]]

EmptySet == [decls |-> <<>>, long_opts_ |-> <<>>, short_opts_ |-> <<>>]

\* The constructor declares help.
Help == <<"h", "e", "l", "p">>
Constructed == option_add(EmptySet, Help \o <<",", "h", "?">>, Flag).set

MaxDecl == 3
AddNames ==
    {<<>>, <<",", "x">>, <<"a">>, <<"a", ",", "x">>, <<"b", ",", "x">>,
     <<"b", ",", "x", "y">>, <<"b", ",", "y", "y">>, Help, <<"c", ",", "h">>,
     <<"c", ",", "z", "?">>, <<"d">>, <<"d", ",">>}
AddDefaults == {Flag, CountDefault}

OptionCall(op, name, ok, before) == [op |-> op, name |-> name, ok |-> ok, before |-> before]
NoOptionCall == OptionCall("none", <<>>, TRUE, EmptySet)

InitOptions ==
    /\ IndexIdle
    /\ summary = Idle
    /\ json = Idle
    /\ conversion = Idle
    /\ schemas = Idle
    /\ registry = Idle
    /\ plugins = Idle
    /\ options = [state |-> "declared", set |-> Constructed, adds |-> 0,
                  last |-> NoOptionCall]
    /\ ingestor = Idle

OptionAdd(name, default_value) ==
    /\ options.state = "declared"
    /\ options.adds < MaxDecl
    /\ LET done == option_add(options.set, name, default_value)
       IN options' = [options EXCEPT
                        !.set = done.set,
                        !.adds = @ + 1,
                        !.last = OptionCall("add", name, done.ok, options.set)]
    /\ UNCHANGED <<index, others, registry, plugins, ingestor>>

NextOptions == \E name \in AddNames, default_value \in AddDefaults : OptionAdd(name, default_value)

SpecOptions == InitOptions /\ [][NextOptions]_vars

\* ------------------------------------------------- parsing the options
\* option_declaration_set::parse.  An argument iterator is a position in the
\* argument list, end is the position after the last argument.  xs, the
\* option_map, is a map from long names to values: add fails on a name that
\* is present, set overwrites.

starts_with(s, prefix) == Len(s) >= Len(prefix) /\ SubSeq(s, 1, Len(prefix)) = prefix

\* s.substr(pos) with pos counted from 0.
substr_from(s, pos) == SubSeq(s, pos + 1, Len(s))

\* option_declaration::parse(value): the value is parsed as the type of the
\* default value; none is a type without a parser.
declaration_parse(option, value) ==
    CASE option.default_value.type = "none" ->
             [state |-> "type_not_parsebale", value |-> option.default_value]
      [] option.default_value.type = "count" ->
             IF AllDigits(value)
             THEN [state |-> "successful", value |-> [type |-> "count", value |-> DecimalValue(value)]]
             ELSE [state |-> "failed_to_parse_argument", value |-> option.default_value]
      [] OTHER ->
             IF value \in {<<"T">>, <<"F">>}
             THEN [state |-> "successful", value |-> [type |-> "bool", value |-> IF value = <<"T">> THEN 1 ELSE 0]]
             ELSE [state |-> "failed_to_parse_argument", value |-> option.default_value]

\* An iterator that is not moved.
increment_not(begin) == begin

\* ++begin
increment(begin) == begin + 1

ParseResult(state, it, xs) == [state |-> state, it |-> it, xs |-> xs]
True == [type |-> "bool", value |-> 1]
map_set(m, k, v) == [x \in DOMAIN m \cup {k} |-> IF x = k THEN v ELSE m[x]]

\* parse_argument(idx, option, begin, end)
parse_argument(idx, option, args, begin) ==
    IF begin = Len(args) + 1
    THEN [state |-> "arg_declared_but_not_passed", it |-> begin, value |-> NoneDefault]
    ELSE LET arg == substr_from(args[begin], idx)
             parsed == declaration_parse(option, arg)
         IN IF parsed.state # "successful"
            THEN [state |-> parsed.state, it |-> begin, value |-> NoneDefault]
            ELSE [state |-> parsed.state, it |-> increment(begin), value |-> parsed.value]

\* parse_short_option(begin, end): "-s", "-sXX" or "-s" "XX".
parse_short_option(set, xs, args, begin) ==
    LET x == args[begin]
    IN IF Len(x) <= 1 THEN ParseResult("name_not_declartion", begin, xs)
       ELSE IF x[2] \notin DOMAIN set.short_opts_ THEN ParseResult("name_not_declartion", begin, xs)
       ELSE LET option == set.decls[set.short_opts_[x[2]]]
            IN IF option.has_argument
               THEN LET res == IF Len(x) > 2 THEN parse_argument(2, option, args, begin)
                               ELSE parse_argument(0, option, args, increment(begin))
                    IN IF res.state # "successful" THEN ParseResult(res.state, res.it, xs)
                       ELSE ParseResult("in_progress", res.it, map_set(xs, option.long_name, res.value))
               ELSE IF Len(x) > 2 THEN ParseResult("arg_passed_but_not_declared", begin, xs)
                    ELSE ParseResult("in_progress", increment(begin), map_set(xs, option.long_name, True))

\* parse_long_option(begin, end): "--long_name" or "--long_name=XX".
parse_long_option(set, xs, args, begin) ==
    LET x == args[begin]
        idx == str_find(x, "=")
        long_name == IF idx = 0 THEN SubSeq(x, 3, Len(x)) ELSE SubSeq(x, 3, idx - 1)
    IN IF long_name \notin DOMAIN set.long_opts_ THEN ParseResult("name_not_declartion", begin, xs)
       ELSE LET option == set.decls[set.long_opts_[long_name]]
            IN IF option.has_argument
               THEN IF idx = 0 THEN ParseResult("arg_declared_but_not_passed", begin, xs)
                    ELSE LET res == parse_argument(idx, option, args, begin)
                         IN IF res.state # "successful" THEN ParseResult(res.state, res.it, xs)
                            ELSE ParseResult("in_progress", res.it, map_set(xs, long_name, res.value))
               ELSE IF idx # 0 THEN ParseResult("arg_passed_but_not_declared", begin, xs)
                    ELSE ParseResult("in_progress", increment(begin), map_set(xs, long_name, True))

dispatch(set, xs, args, begin) ==
    IF begin = Len(args) + 1 THEN ParseResult("successful", Len(args) + 1, xs)
    ELSE IF starts_with(args[begin], <<"-", "-">>) THEN parse_long_option(set, xs, args, begin)
    ELSE IF starts_with(args[begin], <<"-">>) THEN parse_short_option(set, xs, args, begin)
    ELSE ParseResult("begin_is_not_an_option", begin, xs)

\* One entry of the record kept of the calls of dispatch.
Dispatched(from, before, res) == [from |-> from, before |-> before, state |-> res.state, it |-> res.it, xs |-> res.xs]

\* auto [state, it] = dispatch(begin, end); while (state == in_progress)
\* std::tie(state, it) = dispatch(it, end); followed for at most calls
\* further calls of dispatch.
RECURSIVE dispatch_loop(_, _, _, _)
dispatch_loop(set, args, trace, calls) ==
    LET cur == trace[Len(trace)]
    IN IF cur.state # "in_progress" \/ calls = 0 THEN trace
       ELSE dispatch_loop(set, args,
                          Append(trace, Dispatched(cur.it, cur.xs, dispatch(set, cur.xs, args, cur.it))),
                          calls - 1)

\* The names whose default value the first loop cannot add to xs.
Clashing(set, xs) == {k \in DOMAIN set.long_opts_ : k \in DOMAIN xs /\ k # Help}

\* xs after the default values of the names in ks were added.
WithDefaults(set, xs, ks) ==
    [k \in DOMAIN xs \cup ks |-> IF k \in DOMAIN xs THEN xs[k] ELSE set.decls[set.long_opts_[k]].default_value]

MaxArgs == 2
Arguments ==
    {<<"-", "-", "c", "c", "=", "1", "7">>, <<"-", "-", "c", "c">>, <<"-", "-", "c", "c", "=", "x">>,
     <<"-", "-", "c", "c", "=">>, <<"-", "-", "f", "f">>, <<"-", "-", "f", "f", "=", "1">>,
     <<"-", "-", "z", "z">>, <<"-", "-">>, <<"-">>, <<"-", "c">>, <<"-", "c", "1">>, <<"-", "c", "x">>,
     <<"-", "f">>, <<"-", "f", "1">>, <<"-", "z">>, <<"1">>, <<"x">>,
     <<"-", "-", "n", "n", "=", "1">>, <<"-", "n">>, <<"-", "-">> \o Help, <<"-", "h">>}
ArgumentLists == UNION {[1..n -> Arguments] : n \in 0..MaxArgs}

\* The declarations of the program that parses: the constructed set, and
\* that set with a count cc,c, a flag ff,f and an option nn,n without a type.
Declared ==
    option_add(option_add(option_add(Constructed,
        <<"c", "c", ",", "c">>, CountDefault).set,
        <<"f", "f", ",", "f">>, Flag).set,
        <<"n", "n", ",", "n">>, NoneDefault).set
DeclaredSets == {Constructed, Declared}
OptionMaps == {<<>>, Help :> Flag, <<"c", "c">> :> [type |-> "count", value |-> 5]}

ParseCall(args, xs, trace, state, it, result) ==
    [op |-> "parse", args |-> args, xs |-> xs, trace |-> trace, state |-> state, it |-> it, result |-> result]

InitParse ==
    /\ IndexIdle
    /\ summary = Idle
    /\ json = Idle
    /\ conversion = Idle
    /\ schemas = Idle
    /\ registry = Idle
    /\ plugins = Idle
    /\ \E set \in DeclaredSets :
           options = [state |-> "parsing", set |-> set, adds |-> 0, last |-> NoOptionCall]
    /\ ingestor = Idle

\* parse(xs, begin, end) on the arguments args, the one call a program
\* makes with its command line.
ParseArguments(args, xs) ==
    /\ LET set == options.set
           end == Len(args) + 1
       IN IF Clashing(set, xs) # {}
          THEN \E ks \in SUBSET (DOMAIN set.long_opts_ \ DOMAIN xs) :
                   options' = [options EXCEPT
                                 !.last = ParseCall(args, xs, <<>>, "option_already_exists", end,
                                                    WithDefaults(set, xs, ks))]
          ELSE LET filled == WithDefaults(set, xs, DOMAIN set.long_opts_)
                   first == Dispatched(1, filled, dispatch(set, filled, args, 1))
                   trace == dispatch_loop(set, args, <<first>>, Len(args))
                   last == trace[Len(trace)]
               IN options' = [options EXCEPT
                                !.last = ParseCall(args, xs, trace, last.state, last.it, last.xs)]
    /\ UNCHANGED <<index, others, registry, plugins, ingestor>>

Parse ==
    /\ options.state = "parsing"
    /\ options.last.op = "none"
    /\ \E args \in ArgumentLists, xs \in OptionMaps : ParseArguments(args, xs)

NextParse == Parse

SpecParse == InitParse /\ [][NextParse]_vars

\* ------------------------------------------------------------ ingestor
\* src/vast/ingestor.cc, ingestor_actor::act.  segments_ is the map from
\* the id of a segment to the segment; a segment stands as its id.  The
\* messages to the actor that are not handled yet are kept per kind: the
\* acks and nacks of the receiver and the delayed terminate messages.  The
\* receiver answers every segment it got once, with ack or with nack.

MaxSegments == 3
SegmentIds == 1..MaxSegments
MaxShutdowns == 2
ExitReasons == {"done", "stop"}

\* segments_.erase(segments_.begin())
erase_first(segments, id) == segments \ {CHOOSE x \in segments : \A y \in segments : x <= y}

\* segments_.erase(segments_.find(id))
erase_found(segments, id) == segments \ {id}

IngestorCall(op, id, before) == [op |-> op, id |-> id, before |-> before]

InitIngestor ==
    /\ IndexIdle
    /\ summary = Idle
    /\ json = Idle
    /\ conversion = Idle
    /\ schemas = Idle
    /\ registry = Idle
    /\ plugins = Idle
    /\ options = Idle
    /\ ingestor = [state |-> "running", segments_ |-> {}, receiver |-> {}, relayed |-> {},
                   acks |-> {}, nacks |-> {}, acked |-> {}, terminates |-> 0, shutdowns |-> 0,
                   saved |-> {}, exit |-> "none", last |-> IngestorCall("none", 0, {})]

\* on_arg_match >> [=](segment& s): a sink sends a segment with a new id.
Segment(id) ==
    /\ ingestor.state = "running"
    /\ id \notin ingestor.relayed
    /\ ingestor' = [ingestor EXCEPT
                      !.segments_ = @ \cup {id},
                      !.receiver = @ \cup {id},
                      !.relayed = @ \cup {id},
                      !.last = IngestorCall("segment", id, ingestor.segments_)]
    /\ UNCHANGED <<index, others, registry, plugins, options>>

\* The receiver acknowledges a segment it got.
ReceiverAck(id) ==
    /\ id \in ingestor.receiver
    /\ ingestor' = [ingestor EXCEPT !.receiver = @ \ {id}, !.acks = @ \cup {id}]
    /\ UNCHANGED <<index, others, registry, plugins, options>>

\* The receiver rejects a segment it got.
ReceiverNack(id) ==
    /\ id \in ingestor.receiver
    /\ ingestor' = [ingestor EXCEPT !.receiver = @ \ {id}, !.nacks = @ \cup {id}]
    /\ UNCHANGED <<index, others, registry, plugins, options>>

\* on(atom("ack"), arg_match): the assertion fails for an id that
\* segments_ does not hold.
Ack(id) ==
    /\ ingestor.state = "running"
    /\ id \in ingestor.acks
    /\ ingestor' = [ingestor EXCEPT
                      !.acks = @ \ {id},
                      !.acked = @ \cup {id},
                      !.state = IF id \in ingestor.segments_ THEN @ ELSE "aborted",
                      !.segments_ = IF id \in @ THEN erase_found(@, id) ELSE @,
                      !.last = IngestorCall("ack", id, ingestor.segments_)]
    /\ UNCHANGED <<index, others, registry, plugins, options>>

\* on(atom("nack"), arg_match)
Nack(id) ==
    /\ ingestor.state = "running"
    /\ id \in ingestor.nacks
    /\ ingestor' = [ingestor EXCEPT
                      !.nacks = @ \ {id},
                      !.state = "quit",
                      !.exit = "error",
                      !.last = IngestorCall("nack", id, ingestor.segments_)]
    /\ UNCHANGED <<index, others, registry, plugins, options>>

\* on(atom("shutdown"), arg_match)
Shutdown(reason) ==
    /\ ingestor.state = "running"
    /\ ingestor.shutdowns < MaxShutdowns
    /\ ingestor' = [ingestor EXCEPT
                      !.shutdowns = @ + 1,
                      !.state = IF ingestor.segments_ = {} THEN "quit" ELSE @,
                      !.exit = IF ingestor.segments_ = {} THEN reason ELSE @,
                      !.terminates = IF ingestor.segments_ = {} THEN @ ELSE @ + 1,
                      !.last = IngestorCall("shutdown", 0, ingestor.segments_)]
    /\ UNCHANGED <<index, others, registry, plugins, options>>

\* on(atom("terminate")), thirty seconds after the shutdown that sent it:
\* a build with assertions aborts when segments_ is empty, a build without
\* them saves nothing and quits.
Terminate ==
    /\ ingestor.state = "running"
    /\ ingestor.terminates > 0
    /\ \E state \in (IF ingestor.segments_ = {} THEN {"aborted", "quit"} ELSE {"quit"}) :
           ingestor' = [ingestor EXCEPT
                          !.terminates = @ - 1,
                          !.state = state,
                          !.saved = IF state = "quit" THEN ingestor.segments_ ELSE @,
                          !.exit = IF state = "quit" THEN "error" ELSE @,
                          !.last = IngestorCall("terminate", 0, ingestor.segments_)]
    /\ UNCHANGED <<index, others, registry, plugins, options>>

NextIngestor ==
    \/ \E id \in SegmentIds : Segment(id)
    \/ \E id \in SegmentIds : ReceiverAck(id)
    \/ \E id \in SegmentIds : ReceiverNack(id)
    \/ \E id \in SegmentIds : Ack(id)
    \/ \E id \in SegmentIds : Nack(id)
    \/ \E reason \in ExitReasons : Shutdown(reason)
    \/ Terminate

SpecIngestor == InitIngestor /\ [][NextIngestor]_vars

\* ---------------------------------------------------------- get_schema
\* libvast/src/schema.cpp, get_schema.  An option is unset, or set to a text
\* (vast.import.schema) or a file (vast.import.schema-file); what
\* to<schema> and load_schema make of it is the update it carries: a schema
\* or an error.

MaxSchemaLen == 2
ConfiguredTypes == {Type(kind, name, {}) : kind \in {"count", "time"}, name \in {"port", "timestamp"}}
ConfiguredSchemata ==
    {s \in UNION {[1..n -> ConfiguredTypes] : n \in 0..MaxSchemaLen} :
        \A i \in 1..Len(s), j \in 1..Len(s) : i # j => s[i].name # s[j].name}

Outcome(ok, error, types_) == [ok |-> ok, error |-> error, types_ |-> types_]
Unset == [set |-> FALSE, update |-> Outcome(FALSE, "none", <<>>)]
SetTo(update) == [set |-> TRUE, update |-> update]
SchemaOptions(error) ==
    {Unset, SetTo(Outcome(FALSE, error, <<>>))}
        \cup {SetTo(Outcome(TRUE, "none", s)) : s \in ConfiguredSchemata}

\* get_schema(options) with the default schema of the registry: the error
\* made when both options are set is not returned.
get_schema(default, sc, sf) ==
    IF ~sc.set /\ ~sf.set THEN Outcome(TRUE, "none", default)
    ELSE LET update == IF sc.set THEN sc.update ELSE sf.update
         IN IF ~update.ok THEN update
            ELSE Outcome(TRUE, "none", schema_combine(default, update.types_))

GetSchemaCall(op, default, sc, sf, out) == [op |-> op, default |-> default, sc |-> sc, sf |-> sf, out |-> out]

InitGetSchema ==
    /\ IndexIdle
    /\ summary = Idle
    /\ json = Idle
    /\ conversion = Idle
    /\ schemas = [state |-> "configured",
                  last |-> GetSchemaCall("none", <<>>, Unset, Unset, Outcome(TRUE, "none", <<>>))]
    /\ MoreIdle

\* The call of get_schema that an import makes with its settings.
GetSchemaWith(default, sc, sf) ==
    /\ schemas' = [schemas EXCEPT
                     !.last = GetSchemaCall("get_schema", default, sc, sf, get_schema(default, sc, sf))]
    /\ UNCHANGED <<index, summary, json, conversion, more>>

GetSchema ==
    /\ schemas.state = "configured"
    /\ schemas.last.op = "none"
    /\ \E default \in ConfiguredSchemata, sc \in SchemaOptions("parse_error"),
          sf \in SchemaOptions("filesystem_error") : GetSchemaWith(default, sc, sf)

NextGetSchema == GetSchema

SpecGetSchema == InitGetSchema /\ [][NextGetSchema]_vars

\* ------------------------------------------------------------- the claims

\* C1: soundness of lookup.  Every partition whose actual data satisfies the
\* expression looked up is an element of the result (the synopses are built
\* from that data by add, so each honours the no-false-negative contract).
LookupIsSound ==
    reply.op = "lookup" => Holders(reply.expr) \subseteq Range(reply.ids)


\* C2: every lookup of a non-Nil expression returns a strictly ascending
\* list (sorted, no id twice) of keys of the current synopses map.
LookupIsStrictlyAscending ==
    reply.op = "lookup" =>
        /\ IsStrictlyAscending(reply.ids)
        /\ Range(reply.ids) \subseteq DOMAIN synopses

\* C2 witness: a map iterated in descending order answered a disjunction
\* with several partitions.
LookupSortedWitness ==
    /\ reply.op = "lookup"
    /\ reply.expr.node = "disjunction"
    /\ Len(reply.ids) >= 2
    /\ bucket_order[1] = MaxPartition

\* C3: merge(id, synopsis) leaves id mapped to the given synopsis, every
\* other partition as it was, and adds no key but id.
MergeInsertsOrReplaces ==
    [][reply'.op = "merge" =>
       \A partition \in PartitionIds, sp \in SealedPartitions :
         Merge(partition, sp) =>
            /\ DOMAIN synopses' = DOMAIN synopses \cup {partition}
            /\ synopses'[partition] = sp.synopsis
            /\ \A id \in DOMAIN synopses \ {partition} : synopses'[id] = synopses[id]]_vars

\* C3 witness: a merge replaced the synopsis of a partition while another
\* partition was in the map.
MergeReplacedWitness ==
    /\ reply.op = "merge"
    /\ reply.note = "replaced"
    /\ Cardinality(DOMAIN synopses) >= 2

\* C4: erase(id) takes id out and leaves every other entry as it was; for an
\* absent id the call returns like any other and the state is unchanged.
EraseRemovesOnlyId ==
    [][reply'.op = "erase" =>
       \A partition \in PartitionIds :
         Erase(partition) =>
            /\ DOMAIN synopses' = DOMAIN synopses \ {partition}
            /\ \A id \in DOMAIN synopses' : synopses'[id] = synopses[id]
            /\ (partition \notin DOMAIN synopses => synopses' = synopses)]_vars

\* C4 witness: an erase of an absent id on a map that holds other entries.
EraseAbsentWitness ==
    /\ reply.op = "erase"
    /\ reply.note = "absent"
    /\ synopses # <<>>

\* C5: after merge(id, s), merge(id, s) once more changes nothing: the
\* state, and with it every lookup, is the same; a merge that repeats the
\* synopsis the partition already has leaves the state as it was.
MergeIsIdempotent ==
    [][reply'.op = "merge" =>
       \A partition \in PartitionIds, sp \in SealedPartitions :
         Merge(partition, sp) =>
            /\ merge(synopses', partition, sp.synopsis) = synopses'
            /\ (reply'.note = "same" =>
                  /\ synopses' = synopses
                  /\ \A expr \in Nested :
                        lookup(synopses', expr) = lookup(synopses, expr))]_vars

\* C5 witness: the same synopsis was merged for a partition that had it.
MergeTwiceWitness ==
    /\ reply.op = "merge"
    /\ reply.note = "same"


\* The orders in which the elements of a set can be taken.
RECURSIVE Orderings(_)
Orderings(set) ==
    IF set = {} THEN {<<>>}
    ELSE UNION {{<<x>> \o rest : rest \in Orderings(set \ {x})} : x \in set}

\* merge, entry by entry, in the order `keys`.
RECURSIVE MergeInOrder(_, _, _)
MergeInOrder(S, ps, keys) ==
    IF keys = <<>> THEN S
    ELSE MergeInOrder(merge(S, Head(keys), ps[Head(keys)]), ps, Tail(keys))

\* C7: a bulk merge leaves the state that single merges of the map's entries
\* leave, whatever the order the entries are taken in.
BulkMergeIsSequenceOfMerges ==
    [][reply'.op = "merge_bulk" =>
         \A keys \in Orderings(DOMAIN reply'.expr) :
             synopses' = MergeInOrder(synopses, reply'.expr, keys)]_vars

\* C7 witness: a bulk merge of two entries, one of them replacing a
\* partition of the map.
BulkMergeWitness ==
    /\ reply.op = "merge_bulk"
    /\ reply.id >= 2
    /\ reply.note = "replaced"

\* The sum of the memory usage of the partition synopses of `ids`.
RECURSIVE MemoryOf(_, _)
MemoryOf(S, ids) ==
    IF ids = {} THEN 0
    ELSE LET id == CHOOSE x \in ids : TRUE
         IN PartitionMemusage(S[id]) + MemoryOf(S, ids \ {id})

\* C9: memusage() returns the sum of the memory usage of the partition
\* synopses in the map at the time of the call: 0 for the empty map,
\* nothing for a synopsis that was replaced or erased.
MemusageIsSumOverEntries ==
    reply.op = "memusage" => reply.bytes = MemoryOf(synopses, DOMAIN synopses)

\* C9 witness: memusage on a map of several partitions with synopses.
MemusageWitness ==
    /\ reply.op = "memusage"
    /\ Cardinality(DOMAIN synopses) >= 2
    /\ \A id \in DOMAIN synopses : PartitionMemusage(synopses[id]) > 0
    /\ reply.bytes > 0

\* A batch in the order `order` of its positions.
Reordered(ops, order) == [i \in 1..Len(order) |-> ops[order[i]]]

\* C6: merges and erases on pairwise distinct partition ids commute: from
\* any state, every ordering of the operations of a batch leaves the same
\* map.
MergesAndErasesCommute ==
    [][reply'.op = "batch" =>
         \A order \in Orderings(1..Len(reply'.expr)) :
             ApplyAll(synopses, Reordered(reply'.expr, order), "synopsis") = synopses']_vars

\* C6 witness: a batch of several operations, a merge and the erase of a
\* partition of the map among them.
CommuteWitness ==
    /\ reply.op = "batch"
    /\ reply.id >= 2
    /\ reply.note = "mixed"

\* The keys of a map, ascending.
KeysAscending(S) == CHOOSE s \in Orderings(DOMAIN S) : IsStrictlyAscending(s)

\* C8: lookup is a pure function of the current state: it leaves the map
\* alone, what it answers and memoizes comes from the map as it is at the
\* call (never from an earlier call), and asked again with no merge or
\* erase in between it answers the same.
LookupIsPure ==
    [][reply'.op = "lookup" =>
         /\ synopses' = synopses
         /\ memoized' \in {<<>>, KeysAscending(synopses')}
         /\ Range(reply'.ids) \subseteq DOMAIN synopses'
         /\ (reply'.expr.node = "negation" => reply'.ids = KeysAscending(synopses'))
         /\ (reply.op = "lookup" => reply'.ids = reply.ids)]_vars

\* C8 witness: a negation asked a second time on a map that holds some but
\* not all of the partitions, with its memo filled.
LookupAgainWitness ==
    /\ reply.op = "lookup"
    /\ reply.note = "again"
    /\ reply.expr.node = "negation"
    /\ Len(reply.ids) >= 2
    /\ memoized = reply.ids
    /\ DOMAIN synopses # PartitionIds

\* The map after the merges among `msgs`, applied in order to S.
RECURSIVE ApplyPending(_, _)
ApplyPending(S, msgs) ==
    IF msgs = <<>> THEN S
    ELSE ApplyPending(IF Head(msgs).kind = "lookup" THEN S
                      ELSE Overlay(S, Carried(Head(msgs))),
                      Tail(msgs))

\* C10: the actor handles its requests one at a time, to completion and in
\* arrival order: the map is always the one that the merges handled so far
\* leave, each of them whole, and a lookup answers from the merges that
\* arrived before it, all of their entries and no entry of a later merge.
HandledOneAtATime ==
    [][/\ ApplyPending(synopses', mailbox') = arrived'
       /\ (mailbox # <<>> /\ mailbox' = Tail(mailbox) /\ Head(mailbox).kind = "lookup"
              => reply'.ids = Head(mailbox).expect)]_vars

\* C10 witness: a lookup answered with the two entries of the merges before
\* it while a bulk merge that changes the map waits behind it.
ActorWitness ==
    /\ reply.op = "lookup"
    /\ reply.note = "actor"
    /\ Len(reply.ids) = 2
    /\ mailbox # <<>>
    /\ Head(mailbox).kind = "merge_bulk"
    /\ synopses # arrived

\* C11: the lookup of a negation returns every partition id of the map,
\* ascending, whatever the negated expression is; so it holds every
\* partition that the lookup of the negated expression leaves out.
NegationReturnsAllPartitions ==
    reply.op = "lookup" /\ reply.expr.node = "negation" =>
        /\ reply.ids = KeysAscending(synopses)
        /\ DOMAIN synopses \ Range(lookup(synopses, reply.expr.x)) \subseteq Range(reply.ids)

\* C11 witness: a negation looked up on several partitions, with a negated
\* expression whose own result is some but not all of them.
NegationWitness ==
    /\ reply.op = "lookup"
    /\ reply.expr.node = "negation"
    /\ Len(reply.ids) >= 2
    /\ lookup(synopses, reply.expr.x) \notin {<<>>, reply.ids}

\* The partitions in the lookup result of every expression of xs.
InEveryChild(S, xs) ==
    {id \in DOMAIN S : \A i \in 1..Len(xs) : id \in Range(lookup(S, xs[i]))}

\* The partitions in the lookup result of some expression of xs.
InSomeChild(S, xs) ==
    {id \in DOMAIN S : \E i \in 1..Len(xs) : id \in Range(lookup(S, xs[i]))}

\* C12: the lookup of a conjunction of one or more children returns the
\* intersection of the children's lookup results, strictly ascending, also
\* when an empty child result ends the loop early.
ConjunctionIsIntersection ==
    reply.op = "lookup" /\ reply.expr.node = "conjunction" =>
        /\ Range(reply.ids) = InEveryChild(synopses, reply.expr.xs)
        /\ IsStrictlyAscending(reply.ids)

\* C12 witness: a conjunction whose first child has a result and whose
\* second child has none: the loop is left early.
ConjunctionShortCircuitWitness ==
    /\ reply.op = "lookup"
    /\ reply.expr.node = "conjunction"
    /\ Len(reply.expr.xs) >= 2
    /\ lookup(synopses, reply.expr.xs[1]) # <<>>
    /\ lookup(synopses, reply.expr.xs[2]) = <<>>

\* C13: the lookup of a disjunction returns the union of the children's
\* lookup results, strictly ascending and so free of duplicates, also when
\* a child result as long as the map ends the loop early.
DisjunctionIsUnion ==
    reply.op = "lookup" /\ reply.expr.node = "disjunction" =>
        /\ Range(reply.ids) = InSomeChild(synopses, reply.expr.xs)
        /\ IsStrictlyAscending(reply.ids)

\* C13 witness: a disjunction whose first child has some of the partitions
\* and whose second child has all of them: the loop is left early.
DisjunctionShortCircuitWitness ==
    /\ reply.op = "lookup"
    /\ reply.expr.node = "disjunction"
    /\ Len(reply.expr.xs) >= 2
    /\ Len(lookup(synopses, reply.expr.xs[1])) \in 1..(Cardinality(DOMAIN synopses) - 1)
    /\ Len(lookup(synopses, reply.expr.xs[2])) = Cardinality(DOMAIN synopses)

\* C14: a lookup of an expression with Nil in it, at the root or as a child
\* of a conjunction, disjunction or negation, ends with an
\* invalid-expression error handed to the caller and with no list of
\* partition ids.
InvalidExpressionIsReported ==
    reply.op = "lookup" /\ ContainsNil(reply.expr) =>
        reply.note = "invalid_expression" /\ reply.ids = <<>>

\* A left-hand side that is neither #type, #field, a field extractor nor a
\* type extractor.
UnsupportedLhs(lhs) ==
    /\ lhs.ext \notin {"field", "type"}
    /\ lhs.ext = "meta" => lhs.kind \notin {"type", "field"}

\* C15: a predicate whose left-hand side the meta index cannot interpret is
\* no error: the lookup returns, with every partition id of the map,
\* ascending.
UnsupportedLhsReturnsAllPartitions ==
    reply.op = "lookup" /\ reply.expr.node = "predicate"
    /\ UnsupportedLhs(reply.expr.lhs) =>
        reply.note = "first" /\ reply.ids = KeysAscending(synopses)

\* C15 witness: a data extractor looked up on several partitions that the
\* map hands out in descending order.
UnsupportedLhsWitness ==
    /\ reply.op = "lookup"
    /\ reply.expr.node = "predicate"
    /\ reply.expr.lhs.ext = "data"
    /\ Len(reply.ids) >= 2
    /\ bucket_order[1] > bucket_order[2]

\* Whether the sequence a ends with the sequence s.
HasSuffix(a, s) ==
    Len(s) <= Len(a) /\ SubSeq(a, Len(a) - Len(s) + 1, Len(a)) = s

\* The fully qualified names of the keys of field_synopses_.
QualifiedNames(ps) ==
    {ps.field_synopses_[i].field.layout_name \o <<".">>
        \o ps.field_synopses_[i].field.field_name : i \in 1..Len(ps.field_synopses_)}

\* The partitions with a key whose qualified name ends with s.
WithFieldNamed(S, s) ==
    {id \in DOMAIN S : \E name \in QualifiedNames(S[id]) : HasSuffix(name, s)}

\* C16: for #field with a string s, a partition is in the result iff the
\* operator is not negated and some key of its field_synopses_ has a
\* qualified name ending with s, or the operator is negated and none has;
\* so #field == s and #field != s split the partitions between them.
FieldNameLookupIsByKeys ==
    reply.op = "lookup" /\ reply.expr.node = "predicate"
    /\ reply.expr.lhs = MetaExtractor("field") /\ reply.expr.rhs.tag = "string" =>
        LET s == reply.expr.rhs.s
            eq == Range(lookup(synopses, Predicate(MetaExtractor("field"), "==", Str(s))))
            ne == Range(lookup(synopses, Predicate(MetaExtractor("field"), "!=", Str(s))))
        IN /\ Range(reply.ids) =
                  IF reply.expr.op \in {"!=", "!in"}
                  THEN DOMAIN synopses \ WithFieldNamed(synopses, s)
                  ELSE WithFieldNamed(synopses, s)
           /\ eq \cap ne = {}
           /\ eq \cup ne = DOMAIN synopses

\* C16 witness: #field != s on a map where some partitions have a field
\* named s and some have none.
FieldNameWitness ==
    /\ reply.op = "lookup"
    /\ reply.expr.node = "predicate"
    /\ reply.expr.lhs = MetaExtractor("field")
    /\ reply.expr.op = "!="
    /\ reply.expr.rhs = Str(query)
    /\ Len(reply.ids) \in 1..(Cardinality(DOMAIN synopses) - 1)

\* C17: #field with a right-hand side that is no string returns the empty
\* list, in every state and for every operator, negated or not, and is no
\* error.
FieldNameNeedsString ==
    reply.op = "lookup" /\ reply.expr.node = "predicate"
    /\ reply.expr.lhs = MetaExtractor("field") /\ reply.expr.rhs.tag # "string" =>
        reply.note = "first" /\ reply.ids = <<>>

\* C17 witness: #field != 1 looked up on several partitions.
FieldNameNeedsStringWitness ==
    /\ reply.op = "lookup"
    /\ reply.expr.node = "predicate"
    /\ reply.expr.lhs = MetaExtractor("field")
    /\ reply.expr.op = "!="
    /\ reply.expr.rhs = Cnt(1)
    /\ Cardinality(DOMAIN synopses) >= 2

\* The layout names of the keys of field_synopses_.
LayoutNames(ps) ==
    {ps.field_synopses_[i].field.layout_name : i \in 1..Len(ps.field_synopses_)}

\* The map with every synopsis taken away: the keys alone.
KeysOnly(S) ==
    [id \in DOMAIN S |->
        [field_synopses_ |->
            [i \in 1..Len(S[id].field_synopses_) |->
                [field |-> S[id].field_synopses_[i].field, syn |-> Null]],
         type_synopses_ |-> <<>>]]

\* C18: for #type, a partition is in the result iff some key of its
\* field_synopses_ has a layout name n with evaluate(n, op, rhs); it is
\* there once, and the answer comes from the keys alone, with no synopsis
\* consulted.
LayoutLookupIsByKeys ==
    reply.op = "lookup" /\ reply.expr.node = "predicate"
    /\ reply.expr.lhs = MetaExtractor("type") =>
        /\ Range(reply.ids) =
              {id \in DOMAIN synopses :
                  \E n \in LayoutNames(synopses[id]) :
                      evaluate(Str(n), reply.expr.op, reply.expr.rhs)}
        /\ IsStrictlyAscending(reply.ids)
        /\ reply.ids = lookup(KeysOnly(synopses), reply.expr)

\* C18 witness: #type == "c" on a map with a partition of that layout,
\* which has several fields, and a partition without it.
LayoutWitness ==
    /\ reply.op = "lookup"
    /\ reply.expr = Predicate(MetaExtractor("type"), "==", Str(conn))
    /\ Len(reply.ids) \in 1..(Cardinality(DOMAIN synopses) - 1)
    /\ \E id \in Range(reply.ids) : Len(synopses[id].field_synopses_) >= 2

\* The matching rule for a type extractor with query type t: by name when
\* t has a name, else by structural equality with a field type that has no
\* name.
MatchesQueryType(t, field) ==
    IF t.name # "" THEN field.type.name = t.name
    ELSE TypeEq(field.type, t) /\ field.type.name = ""

\* C19: for a type extractor, the fields handed to search are those whose
\* type name equals the name of the query type when the query type has a
\* name, whatever its variant, and those of an unnamed type structurally
\* equal to the query type when it has none.
TypeExtractorMatching ==
    reply.op = "lookup" /\ reply.expr.node = "predicate"
    /\ reply.expr.lhs.ext = "type" =>
        \A id \in DOMAIN synopses :
            \A i \in 1..Len(synopses[id].field_synopses_) :
                LET field == synopses[id].field_synopses_[i].field
                IN Match(TypePredicate(reply.expr.lhs), field)
                       = MatchesQueryType(reply.expr.lhs.type, field)

\* C20: for a type extractor whose type has the name "timestamp", the
\* result is the union, strictly ascending, of the search by that name and
\* the search over the fields whose type carries the attribute "timestamp".
TimestampCarveOut ==
    reply.op = "lookup" /\ reply.expr.node = "predicate"
    /\ reply.expr.lhs.ext = "type" /\ reply.expr.lhs.type.name = "timestamp" =>
        /\ Range(reply.ids) =
              Range(search(synopses, reply.expr,
                           [m |-> "name", type |-> reply.expr.lhs.type]))
              \cup Range(search(synopses, reply.expr,
                                [m |-> "attribute", key |-> "timestamp"]))
        /\ IsStrictlyAscending(reply.ids)

\* C21: on the empty map, at the start or after every partition was erased,
\* the lookup of an expression without Nil returns the empty list: also for
\* a negation and for a predicate with an unsupported left-hand side.
EmptyIndexReturnsNothing ==
    reply.op = "lookup" /\ DOMAIN synopses = {} /\ ~ContainsNil(reply.expr) =>
        reply.note \in {"first", "again"} /\ reply.ids = <<>>

\* C21 witness: a negation looked up on the empty map.
EmptyIndexWitness ==
    /\ reply.op = "lookup"
    /\ reply.expr.node = "negation"
    /\ DOMAIN synopses = {}

\* C22: every kind of synopsis (Bloom filter, min-max, Boolean tally) is
\* sound: after any sequence of add calls, lookup(op, probe) answers
\* Some(false) only if no added value v satisfies v op probe.
SynopsisIsSound ==
    summary.state = "open" /\ summary.answer.opt = "Some(false)" =>
        \A i \in 1..Len(summary.added) :
            ~evaluate(summary.added[i], summary.answer.op, summary.answer.probe)

\* C22 witness: a min-max synopsis with several values added rules <= out.
SynopsisRulesOutWitness ==
    /\ summary.state = "open"
    /\ summary.synopsis.kind = "minmax"
    /\ Len(summary.added) >= 2
    /\ summary.added[1] # summary.added[2]
    /\ summary.answer.op = "<="
    /\ summary.answer.opt = "Some(false)"

\* The entries of field_synopses_ of a partition synopsis whose key ends
\* with the field name s and whose synopsis is a Bloom filter.
BloomFieldsNamed(ps, s) ==
    {i \in 1..Len(ps.field_synopses_) :
        /\ HasSuffix(fqn(ps.field_synopses_[i].field), s)
        /\ ps.field_synopses_[i].syn.kind = "bloom"}

\* C23: a Bloom synopsis answers None to != for every probe, and the lookup
\* of a field-extractor predicate with != returns every partition that has
\* a matching field summarised by a Bloom synopsis.
BloomNeverRulesOutNotEqual ==
    reply.op = "lookup" /\ reply.expr.node = "predicate"
    /\ reply.expr.lhs.ext = "field" /\ reply.expr.op = "!=" =>
        \A id \in DOMAIN synopses :
            \A i \in BloomFieldsNamed(synopses[id], reply.expr.lhs.field) :
                /\ \A probe \in Probes \cup {reply.expr.rhs} :
                       SynopsisLookup(synopses[id].field_synopses_[i].syn, "!=", probe)
                           = "None"
                /\ id \in Range(reply.ids)

\* C23 witness: the partition whose only orig_h is the probe is returned for
\* orig_h != probe.
BloomNotEqualWitness ==
    /\ reply.op = "lookup"
    /\ reply.expr = Predicate(FieldExtractor(orig_h), "!=", Addr(2))
    /\ \E id \in DOMAIN synopses :
           /\ synopses[id] = PartitionC.synopsis
           /\ BloomFieldsNamed(synopses[id], orig_h) # {}
           /\ id \in Range(reply.ids)

\* C24: with the partitions A, B and C of the scenario in the index, merged
\* in any order, lookup(orig_h == 10.0.0.1 && orig_p == 80) returns [A] and
\* lookup(orig_p < 100) returns [A, C].
ScenarioResults ==
    reply.op = "lookup" /\ DOMAIN synopses = DOMAIN ScenarioPartitions =>
        /\ reply.expr = BothEndpoints => reply.ids = <<1>>
        /\ reply.expr = LowPort => reply.ids = <<1, 3>>

\* C24 witness: orig_p < 100 answered with [A, C] by a map that hands C out
\* before A.
ScenarioWitness ==
    /\ reply.op = "lookup"
    /\ reply.expr = LowPort
    /\ DOMAIN synopses = DOMAIN ScenarioPartitions
    /\ Iterate(synopses)[1] = 3
    /\ reply.ids = <<1, 3>>

\* Path traversal of a dotted field: through the sub-record named by the
\* first component, and so on; an error when a component is missing or is
\* no sub-record.
RECURSIVE Traversal(_, _)
Traversal(field, xs) ==
    LET i == find_dot(field)
        head == IF i = 0 THEN field ELSE SubSeq(field, 1, i - 1)
    IN IF head \notin DOMAIN xs THEN NoSuchField
       ELSE IF i = 0 THEN Found(xs[head])
       ELSE IF xs[head].t # "object" THEN IncorrectType
       ELSE Traversal(SubSeq(field, i + 1, Len(field)), xs[head].o)

\* Two results that hand the caller the same thing: the same value, or an
\* error.
SameOutcome(r1, r2) ==
    IF r1.error = "SUCCESS" THEN r1 = r2 ELSE r2.error # "SUCCESS"

\* C25: the lookup of a dotted field name falls back to the flat key
\* whenever the first component is not a sub-record, be it absent or
\* present but no object, and fails only if neither the traversal nor the
\* flat key finds the field.
DottedLookupFallsBack ==
    json.state = "looked up" /\ find_dot(json.field) # 0 =>
        LET xs == json.object
            first == SubSeq(json.field, 1, find_dot(json.field) - 1)
        IN /\ first \notin DOMAIN xs \/ xs[first].t # "object" =>
                  SameOutcome(json.result, at_key(xs, json.field))
           /\ json.result.error # "SUCCESS" =>
                  /\ Traversal(json.field, xs).error # "SUCCESS"
                  /\ json.field \notin DOMAIN xs

\* The number an input stands for, in tenths.
InputTenths(input) ==
    IF input.from = "integer" THEN 10 * input.n ELSE json_number(input.s).x

\* C26: narrowing preserves the value or fails: the conversion of a signed
\* integer to a count, and of a string holding a number to an integer or a
\* count, returns data numerically equal to the input or a conversion error.
NarrowingPreservesValue ==
    conversion.state = "converted" /\ conversion.result.ok
    /\ (conversion.input.from = "string" => json_number(conversion.input.s).ok) =>
        10 * conversion.result.data.n = InputTenths(conversion.input)

\* The type names of a schema.
TypeNames(types_) == {types_[i].name : i \in 1..Len(types_)}

\* Each name of the schema is the name of exactly one of its types.
NamesOnce(types_) == Cardinality(TypeNames(types_)) = Len(types_)

\* C27: combine(s1, s2) holds each type name of s1 or s2 exactly once, a
\* name defined in s2 with the definition of s2 and a name defined only in
\* s1 with that of s1; combine(s, s) is s.
CombinePrefersSecond ==
    schemas.state = "open" /\ schemas.last.op = "combine" =>
        LET s1 == schemas.last.s[schemas.last.k]
            s2 == schemas.last.s[3 - schemas.last.k]
            result == schemas.last.out
        IN /\ TypeNames(result) = TypeNames(s1) \cup TypeNames(s2)
           /\ NamesOnce(result)
           /\ Range(s2) \subseteq Range(result)
           /\ \A t \in Range(s1) : t.name \notin TypeNames(s2) => t \in Range(result)
           /\ s1 = s2 => result = s1

\* C27 witness: a name defined in both schemata, differently, and one
\* defined in s1 only.
CombineConflictWitness ==
    /\ schemas.state = "open"
    /\ schemas.last.op = "combine"
    /\ LET s1 == schemas.last.s[schemas.last.k]
           s2 == schemas.last.s[3 - schemas.last.k]
       IN /\ \E t \in Range(s1), u \in Range(s2) : t.name = u.name /\ t # u
          /\ \E t \in Range(s1) : t.name \notin TypeNames(s2)
          /\ Range(s2) \subseteq Range(schemas.last.out)

\* C28: merge(s1, s2) returns an error iff a type name is defined in both
\* schemata with different definitions; otherwise it returns a schema with
\* every type of s1 and of s2 exactly once; the inputs are as they were.
MergeIsUnionOrClash ==
    schemas.state = "open" /\ schemas.last.op = "merge" =>
        LET s1 == schemas.last.s[schemas.last.k]
            s2 == schemas.last.s[3 - schemas.last.k]
            result == schemas.last.out
        IN /\ ~schemas.last.ok <=>
                  \E t \in Range(s1), u \in Range(s2) : t.name = u.name /\ t # u
           /\ schemas.last.ok =>
                  /\ Range(result) = Range(s1) \cup Range(s2)
                  /\ Cardinality(Range(result)) = Len(result)
           /\ schemas.s = schemas.last.s

\* C28 witness: a merge without a clash of a schema with one that holds one
\* of its types and not the other.
MergeOverlapWitness ==
    /\ schemas.state = "open"
    /\ schemas.last.op = "merge"
    /\ schemas.last.ok
    /\ LET s1 == schemas.last.s[schemas.last.k]
           s2 == schemas.last.s[3 - schemas.last.k]
       IN /\ Range(s1) \cap Range(s2) # {}
          /\ Range(s1) \ Range(s2) # {}
          /\ Len(schemas.last.out) = 2

\* The type names of a schema are non-empty and pairwise distinct.
WellNamed(types_) == "" \notin TypeNames(types_) /\ NamesOnce(types_)

\* C29: add(t) returns false and leaves the schema as it was when t is the
\* none type, has no name, or a type of its name is present, and else
\* appends t and returns true; so in every schema made from the empty one by
\* add, combine and merge the type names are non-empty and pairwise distinct.
AddKeepsNamesDistinct ==
    schemas.state = "open" =>
        /\ schemas.last.op = "add" =>
              LET before == schemas.last.s[schemas.last.k]
                  t == schemas.last.t
              IN IF t.kind = "none" \/ t.name = "" \/ t.name \in TypeNames(before)
                 THEN ~schemas.last.ok /\ schemas.s = schemas.last.s
                 ELSE /\ schemas.last.ok
                      /\ schemas.s = [schemas.last.s EXCEPT
                                        ![schemas.last.k] = Append(before, t)]
        /\ \A k \in SchemaIds : WellNamed(schemas.s[k])
        /\ WellNamed(schemas.last.out)

\* C29 witness: an add turned down for a name that a schema made by combine
\* already holds.
AddRefusedWitness ==
    /\ schemas.state = "open"
    /\ schemas.last.op = "add"
    /\ ~schemas.last.ok
    /\ schemas.last.t.kind # "none"
    /\ schemas.last.t.name # ""
    /\ Len(schemas.s[schemas.last.k]) = 2

\* The match functions that the lookup of a field or type extractor hands
\* to search.
Matchers(lhs) ==
    IF lhs.ext = "field" THEN {[m |-> "suffix", s |-> lhs.field]}
    ELSE {TypePredicate(lhs)}
         \cup IF lhs.type.name = "timestamp"
              THEN {[m |-> "attribute", key |-> "timestamp"]} ELSE {}

\* The answer of the consultation for the i-th field of a partition: of its
\* own synopsis, else of the synopsis of its type, else none.
Consultation(ps, i, x) ==
    LET syn == ps.field_synopses_[i].syn
        typed == {j \in 1..Len(ps.type_synopses_) :
                    ps.type_synopses_[j].type = cleaned_type(ps.field_synopses_[i].field.type)}
    IN IF syn # Null THEN SynopsisLookup(syn, x.op, x.rhs)
       ELSE IF \E j \in typed : ps.type_synopses_[j].syn # Null
       THEN SynopsisLookup(ps.type_synopses_[CHOOSE j \in typed : TRUE].syn, x.op, x.rhs)
       ELSE "None"

\* The fields of a partition that match and are not ruled out.
AcceptedFields(ps, x, matcher) ==
    {i \in 1..Len(ps.field_synopses_) :
        /\ Match(matcher, ps.field_synopses_[i].field)
        /\ Consultation(ps, i, x) # "Some(false)"}

\* C30: for a field or type extractor, a partition is in the result of a
\* search iff one of its fields matches and its consultation does not
\* return Some(false), whatever an earlier matching field answered; a
\* partition without a matching field is not in it, and no partition is in
\* it twice.
SearchScansAllFields ==
    reply.op = "lookup" /\ reply.expr.node = "predicate"
    /\ reply.expr.lhs.ext \in {"field", "type"} =>
        /\ \A matcher \in Matchers(reply.expr.lhs) :
              LET found == search(synopses, reply.expr, matcher)
              IN /\ Range(found) =
                        {id \in DOMAIN synopses :
                            AcceptedFields(synopses[id], reply.expr, matcher) # {}}
                 /\ Len(found) = Cardinality(Range(found))
        /\ Range(reply.ids) =
              {id \in DOMAIN synopses :
                  \E matcher \in Matchers(reply.expr.lhs) :
                      AcceptedFields(synopses[id], reply.expr, matcher) # {}}
        /\ Len(reply.ids) = Cardinality(Range(reply.ids))

\* C30 witness: a partition is returned for its second matching field after
\* the first was ruled out, next to a partition without a matching field.
SearchLaterFieldWitness ==
    /\ reply.op = "lookup"
    /\ reply.expr = Predicate(FieldExtractor(<<"p">>), "==", Cnt(2))
    /\ \E id \in DOMAIN synopses :
           /\ synopses[id] = PartitionG.synopsis
           /\ AcceptedFields(synopses[id], reply.expr, [m |-> "suffix", s |-> <<"p">>]) = {2}
           /\ id \in Range(reply.ids)
    /\ \E id \in DOMAIN synopses : synopses[id] = PartitionB.synopsis /\ id \notin Range(reply.ids)

\* The matching fields of a partition, by what there is to consult: a
\* synopsis of their own, else a non-null synopsis of their type without
\* its attributes, else nothing.
MatchingFields(ps, matcher) ==
    {i \in 1..Len(ps.field_synopses_) : Match(matcher, ps.field_synopses_[i].field)}
WithOwnSynopsis(ps, matcher) ==
    {i \in MatchingFields(ps, matcher) : ps.field_synopses_[i].syn # Null}
TypeSynopsesOf(ps, i) ==
    {j \in 1..Len(ps.type_synopses_) :
        /\ ps.type_synopses_[j].type = [ps.field_synopses_[i].field.type EXCEPT !.attrs = {}]
        /\ ps.type_synopses_[j].syn # Null}
WithTypeSynopsis(ps, matcher) ==
    {i \in MatchingFields(ps, matcher) \ WithOwnSynopsis(ps, matcher) :
        TypeSynopsesOf(ps, i) # {}}
WithNeither(ps, matcher) ==
    {i \in MatchingFields(ps, matcher) \ WithOwnSynopsis(ps, matcher) :
        TypeSynopsesOf(ps, i) = {}}

\* C31: search consults, for a matching field with a synopsis of its own,
\* that synopsis only, also when it answers Some(false); for a matching
\* field without one, the non-null synopsis of the field's type stripped of
\* its attributes; a matching field with neither puts the partition into
\* the result.
ConsultationPriority ==
    reply.op = "lookup" /\ reply.expr.node = "predicate"
    /\ reply.expr.lhs.ext \in {"field", "type"} =>
        \A matcher \in Matchers(reply.expr.lhs) :
            \A id \in DOMAIN synopses :
                LET ps == synopses[id]
                    x == reply.expr
                IN id \in Range(search(synopses, x, matcher)) <=>
                      \/ \E i \in WithOwnSynopsis(ps, matcher) :
                            SynopsisLookup(ps.field_synopses_[i].syn, x.op, x.rhs)
                                # "Some(false)"
                      \/ \E i \in WithTypeSynopsis(ps, matcher) :
                            \E j \in TypeSynopsesOf(ps, i) :
                                SynopsisLookup(ps.type_synopses_[j].syn, x.op, x.rhs)
                                    # "Some(false)"
                      \/ WithNeither(ps, matcher) # {}

\* C31 witness: the only matching field is ruled out by its own synopsis,
\* the synopsis of its type would not have ruled it out, and the partition
\* is left out.
OwnSynopsisOnlyWitness ==
    /\ reply.op = "lookup"
    /\ reply.expr = Predicate(FieldExtractor(hybrid \o <<".">> \o orig_p), "==", Cnt(2))
    /\ \E id \in DOMAIN synopses :
           /\ synopses[id] = PartitionH.synopsis
           /\ WithOwnSynopsis(synopses[id], [m |-> "suffix", s |-> reply.expr.lhs.field]) = {1}
           /\ SynopsisLookup(synopses[id].type_synopses_[1].syn, "==", Cnt(2)) = "None"
           /\ id \notin Range(reply.ids)

\* A sequence without one of its elements.
Without(bucket, layout) == SelectSeq(bucket, LAMBDA x : x # layout)

\* C32: after insert(layout) the bucket data[layout.name()] starts with the
\* layout, new or known; the bucket holds no layout twice, and the other
\* layouts of the bucket keep their order.  The other buckets are as before.
InsertMovesToFront ==
    registry.state = "open" /\ registry.op # "none" =>
        LET layout == registry.layout
            old == BucketOf(registry.before, layout.name)
            new == registry.data[layout.name]
        IN /\ new[1] = layout
           /\ Cardinality(Range(new)) = Len(new)
           /\ Range(new) = Range(old) \cup {layout}
           /\ Without(new, layout) = Without(old, layout)
           /\ \A name \in DOMAIN registry.before \ {layout.name} :
                  registry.data[name] = registry.before[name]

\* C32 witness: a known layout, third in its bucket, is inserted again.
InsertKnownWitness ==
    /\ registry.state = "open"
    /\ registry.op = "put"
    /\ Len(BucketOf(registry.before, registry.layout.name)) = 3
    /\ registry.before[registry.layout.name][3] = registry.layout
    /\ Len(registry.data[registry.layout.name]) = 3

\* Two blocks with a type id in common.
Overlap(x, y) ==
    \E id \in 0..(MaxTypeId + 1) :
        x.begin <= id /\ id < x.end /\ y.begin <= id /\ id < y.end

\* C33: make of a plugin whose block overlaps a block recorded by an
\* earlier plugin fails, registers no message types and records no block;
\* the recorded blocks never overlap one another.
BlocksNeverOverlap ==
    plugins.state = "open" =>
        /\ plugins.last.op = "make" /\ plugins.last.file.loads
           /\ plugins.last.file.has_block /\ plugins.last.file.has_register
           /\ (\E i \in 1..Len(plugins.last.old_blocks) :
                  Overlap(plugins.last.file.block, plugins.last.old_blocks[i])) =>
              /\ ~plugins.last.ok
              /\ plugins.registered = plugins.last.registered
              /\ plugins.old_blocks = plugins.last.old_blocks
        /\ \A i, j \in 1..Len(plugins.old_blocks) :
              i # j => ~Overlap(plugins.old_blocks[i], plugins.old_blocks[j])

\* C33 witness: a block that starts below a recorded block and reaches into
\* it is turned down, after two plugins were loaded with their blocks.
BlockClashWitness ==
    /\ plugins.state = "open"
    /\ plugins.last.op = "make"
    /\ ~plugins.last.ok
    /\ Len(plugins.last.old_blocks) = 2
    /\ plugins.last.file.block = Block(1, MaxTypeId)
    /\ \E i \in 1..2 : plugins.last.old_blocks[i] = Block(2, MaxTypeId)

\* The plugin_ptr objects that hold instance n, and those that hold its
\* library.
HoldersOfInstance(n) == {p \in 1..MaxPtrs : plugins.ptrs[p].alive /\ plugins.ptrs[p].instance_ = n}
HoldersOfLibrary(n) == {p \in 1..MaxPtrs : plugins.ptrs[p].alive /\ plugins.ptrs[p].library_ = n}

\* C39: over make, move construction, move assignment and destruction every
\* plugin instance that make created is destroyed by its deleter exactly
\* once and its library is closed exactly once: until then exactly one
\* plugin_ptr holds it, afterwards none; so a move assignment onto a
\* plugin_ptr that holds a plugin releases that plugin.
PluginReleasedOnce ==
    plugins.state = "open" =>
        \A n \in plugins.instances :
            /\ plugins.destroyed[n] + Cardinality(HoldersOfInstance(n)) = 1
            /\ plugins.closed[n] + Cardinality(HoldersOfLibrary(n)) = 1

\* What the declarations of a set say: each declaration is what its long
\* name resolves to and what each of its short names resolves to.
Resolves(set) ==
    /\ \A id \in 1..Len(set.decls) :
           /\ set.decls[id].long_name \in DOMAIN set.long_opts_
           /\ set.long_opts_[set.decls[id].long_name] = id
           /\ \A i \in 1..Len(set.decls[id].short_names) :
                  /\ set.decls[id].short_names[i] \in DOMAIN set.short_opts_
                  /\ set.short_opts_[set.decls[id].short_names[i]] = id
    /\ \A k \in DOMAIN set.long_opts_ : set.long_opts_[k] \in 1..Len(set.decls)
    /\ \A k \in DOMAIN set.short_opts_ : set.short_opts_[k] \in 1..Len(set.decls)

\* C34: add fails and leaves the declarations as they were when the long
\* name is empty, when the long name is declared already, or when one of the
\* short names is declared already, and succeeds otherwise; so after every
\* sequence of add calls every long name and every short name of a
\* declaration resolves to that declaration and to no other.
AddKeepsNamesUnique ==
    options.state = "declared" =>
        /\ Resolves(options.set)
        /\ options.last.op = "add" =>
               LET n == split_name(options.last.name)
                   before == options.last.before
                   taken == \/ n.long_name = <<>>
                            \/ \E id \in 1..Len(before.decls) :
                                   \/ before.decls[id].long_name = n.long_name
                                   \/ \E i \in 1..Len(n.short_names), j \in 1..Len(before.decls[id].short_names) :
                                          n.short_names[i] = before.decls[id].short_names[j]
               IN /\ options.last.ok <=> ~taken
                  /\ ~options.last.ok => options.set = before
                  /\ options.last.ok => Len(options.set.decls) = Len(before.decls) + 1

\* An add that fails on a short name alone: the long name is new.
AddShortTakenWitness ==
    /\ options.state = "declared"
    /\ options.last.op = "add"
    /\ ~options.last.ok
    /\ split_name(options.last.name).long_name # <<>>
    /\ split_name(options.last.name).long_name \notin DOMAIN options.last.before.long_opts_
    /\ Len(options.last.before.decls) = 2
    /\ options.set = options.last.before

\* How an argument names an option: the long form --name or --name=value,
\* the short form -s or -svalue.
LongForm(x) == Len(x) >= 2 /\ x[1] = "-" /\ x[2] = "-"
ShortForm(x) == Len(x) >= 1 /\ x[1] = "-" /\ ~LongForm(x)
EqualsAt(x) == {i \in 1..Len(x) : x[i] = "=" /\ \A j \in 1..(i - 1) : x[j] # "="}
LongNameOf(x) == IF EqualsAt(x) = {} THEN SubSeq(x, 3, Len(x)) ELSE SubSeq(x, 3, (CHOOSE i \in EqualsAt(x) : TRUE) - 1)
KnownDeclarations(set, x) ==
    {d \in 1..Len(set.decls) :
        \/ LongForm(x) /\ set.decls[d].long_name = LongNameOf(x)
        \/ ShortForm(x) /\ Len(x) >= 2 /\ \E i \in 1..Len(set.decls[d].short_names) : set.decls[d].short_names[i] = x[2]}
GivenWithValue(x) == IF LongForm(x) THEN EqualsAt(x) # {} ELSE Len(x) > 2

\* The state that the claim gives for argument k of args, "" when the claim
\* says nothing about it.
Mismatch(set, args, k) ==
    LET x == args[k]
        known == KnownDeclarations(set, x)
    IN IF ~(LongForm(x) \/ ShortForm(x)) THEN ""
       ELSE IF known = {} THEN "name_not_declartion"
       ELSE LET default == set.decls[CHOOSE d \in known : TRUE].default_value
            IN IF default.type = "bool"
               THEN IF GivenWithValue(x) THEN "arg_passed_but_not_declared" ELSE ""
               ELSE IF LongForm(x) /\ ~GivenWithValue(x) THEN "arg_declared_but_not_passed"
               ELSE IF ShortForm(x) /\ ~GivenWithValue(x) /\ k = Len(args) THEN "arg_declared_but_not_passed"
               ELSE ""

\* C35: when parse comes to an argument that names an undeclared option it
\* returns name_not_declartion; to an option declared with an argument that
\* is given without a value (the long form without '=', the short form as
\* the last argument) it returns arg_declared_but_not_passed; to a flag
\* given with a value it returns arg_passed_but_not_declared; and that call
\* of dispatch is the last one: the option map is left as the arguments
\* before it made it.
ParseReportsMismatch ==
    (options.state = "parsing" /\ options.last.op = "parse") =>
        \A i \in 1..Len(options.last.trace) :
            LET e == options.last.trace[i]
            IN (e.from <= Len(options.last.args) /\ Mismatch(options.set, options.last.args, e.from) # "") =>
                   /\ e.state = Mismatch(options.set, options.last.args, e.from)
                   /\ i = Len(options.last.trace)
                   /\ options.last.state = e.state
                   /\ e.xs = e.before
                   /\ options.last.result = e.before

\* An option with an argument comes without a value and a flag follows it:
\* the flag keeps its default value.
MismatchStopsWitness ==
    /\ options.state = "parsing"
    /\ options.last.op = "parse"
    /\ options.last.args = <<(<<"-", "-", "c", "c">>), (<<"-", "-", "f", "f">>)>>
    /\ options.last.state = "arg_declared_but_not_passed"
    /\ Len(options.last.trace) = 1
    /\ options.last.result[<<"f", "f">>] = Flag

\* C36: parse ends after at most one call of dispatch per argument and one
\* more; every call that returns in_progress leaves the iterator at least
\* one argument further and not after end; successful is returned only with
\* the iterator at end, when every argument lies in a step that returned
\* in_progress.
ParseTerminates ==
    (options.state = "parsing" /\ options.last.op = "parse") =>
        LET c == options.last
            end == Len(c.args) + 1
        IN /\ c.state # "in_progress"
           /\ Len(c.trace) <= Len(c.args) + 1
           /\ \A i \in 1..Len(c.trace) :
                  /\ c.trace[i].state = "in_progress" => (c.trace[i].it > c.trace[i].from /\ c.trace[i].it <= end)
                  /\ i > 1 => (c.trace[i - 1].state = "in_progress" /\ c.trace[i].from = c.trace[i - 1].it)
           /\ c.state = "successful" =>
                  /\ c.it = end
                  /\ \A k \in 1..Len(c.args) :
                         \E i \in 1..Len(c.trace) :
                             c.trace[i].state = "in_progress" /\ c.trace[i].from <= k /\ k < c.trace[i].it

\* -c 1: one step takes two arguments, the next call finds the end.
ParseTwoAtOnceWitness ==
    /\ options.state = "parsing"
    /\ options.last.op = "parse"
    /\ options.last.args = <<(<<"-", "c">>), (<<"1">>)>>
    /\ options.last.state = "successful"
    /\ Len(options.last.trace) = 2
    /\ options.last.trace[1].it = 3
    /\ options.last.result[<<"c", "c">>] = [type |-> "count", value |-> 1]

\* C37: whenever the terminate message is handled, segments_ holds a
\* segment, whatever segments, acks and shutdowns were handled since the
\* shutdown that sent it.
TerminateFindsSegments ==
    (ingestor.state # "idle" /\ ingestor.last.op = "terminate") => ingestor.last.before # {}

\* C38: segments_ holds the ids of the segments that were relayed to the
\* receiver and whose ack was not handled; every ack handled names an id
\* that segments_ holds and removes that entry and no other.
SegmentsAreUnacked ==
    ingestor.state # "idle" =>
        /\ ingestor.segments_ = ingestor.relayed \ ingestor.acked
        /\ ingestor.last.op = "ack" =>
               /\ ingestor.last.id \in ingestor.last.before
               /\ ingestor.segments_ = ingestor.last.before \ {ingestor.last.id}
        /\ ingestor.last.op = "segment" =>
               ingestor.segments_ = ingestor.last.before \cup {ingestor.last.id}

\* The ack of the second of three relayed segments is handled.
AckInTheMiddleWitness ==
    /\ ingestor.state = "running"
    /\ ingestor.last.op = "ack"
    /\ ingestor.last.id = 2
    /\ ingestor.last.before = {1, 2, 3}
    /\ ingestor.segments_ = {1, 3}

\* The types of a schema, and the schema that combining an update into a
\* default schema gives according to the claim: every type of the update,
\* and the types of the default whose name the update does not define.
TypesOf(s) == {s[i] : i \in 1..Len(s)}
NamesOf(s) == {s[i].name : i \in 1..Len(s)}
UpdateWins(default, update, out) ==
    /\ TypesOf(out) = TypesOf(update) \cup {t \in TypesOf(default) : t.name \notin NamesOf(update)}
    /\ Len(out) = Cardinality(NamesOf(default) \cup NamesOf(update))

\* C40: get_schema returns an invalid_configuration error when both
\* vast.import.schema and vast.import.schema-file are set; when one of them
\* is set and gives a schema it returns the default schema combined with
\* that schema, whose types win over the default's of the same name; when
\* neither is set it returns the default schema.
GetSchemaChecksOptions ==
    (schemas.state = "configured" /\ schemas.last.op = "get_schema") =>
        LET c == schemas.last
        IN /\ (c.sc.set /\ c.sf.set) => (~c.out.ok /\ c.out.error = "invalid_configuration")
           /\ (c.sc.set /\ ~c.sf.set /\ c.sc.update.ok) =>
                  (c.out.ok /\ UpdateWins(c.default, c.sc.update.types_, c.out.types_))
           /\ (c.sf.set /\ ~c.sc.set /\ c.sf.update.ok) =>
                  (c.out.ok /\ UpdateWins(c.default, c.sf.update.types_, c.out.types_))
           /\ (~c.sc.set /\ ~c.sf.set) => c.out = Outcome(TRUE, "none", c.default)

====
